---- MODULE Spec2Model ----
(***************************************************************************)
(* Buddy, the voice assistant: the Flask command pipeline of app.py (one   *)
(* worker thread, the /send_command callers, GET /) in front of the single *)
(* VoiceAssistant engine of main.py, which app.py builds with              *)
(* web_mode=True.                                                          *)
(*                                                                         *)
(* Python values: a str is a TLA+ string, None is PyNone, a list is a      *)
(* sequence, a dict with fixed keys is a record.                           *)
(***************************************************************************)
EXTENDS Integers, Sequences, FiniteSets, TLC

\* Python's None (the inputs below never contain this text as a real str).
PyNone == "<None>"

-----------------------------------------------------------------------------
(* The inputs the model draws from.                                        *)

\* The requests the callers post: a JSON body (PyNone as content is a body
\* without "content"), or a request whose request.json is None.
Req(type, content, is_response) ==
    [json |-> TRUE, type |-> type, content |-> content,
     is_response |-> is_response]

NoJson == [json |-> FALSE, type |-> PyNone, content |-> PyNone,
           is_response |-> FALSE]

Requests ==
    { Req("text", "weather", FALSE), Req("text", "Paris", TRUE),
      Req("text", "Paris", FALSE), Req("text", "Goodbye Paris", TRUE),
      Req("text", PyNone, FALSE), Req("voice", PyNone, FALSE),
      Req("image", "weather", FALSE), NoJson }

\* The requests of one conversation: the openers of the slot flows (not
\* flagged), flagged continuations (typed and spoken), a body without
\* "content".
DialogueRequests ==
    { Req("text", "weather", FALSE), Req("text", "exchange rate", FALSE),
      Req("text", "set reminder", FALSE), Req("text", "send email", FALSE),
      Req("text", "Paris", TRUE),
      Req("text", "usd", TRUE), Req("text", "eur", TRUE),
      Req("text", "Goodbye Paris", TRUE), Req("voice", PyNone, TRUE),
      Req("text", PyNone, FALSE) }

\* The requests of a client that never flags a request as a response: two
\* slot openers, commands that need no slot, an utterance no intent matches, an
\* empty and a blank utterance, utterances with a stop phrase or close to
\* one, a body without "content", a spoken command.
FreshRequests ==
    { Req("text", "weather", FALSE), Req("text", "exchange rate", FALSE),
      Req("text", "how are you", FALSE),
      Req("text", "battery status", FALSE), Req("text", "Paris", FALSE),
      Req("text", "", FALSE), Req("text", "  ", FALSE),
      Req("text", "shut it down", FALSE),
      Req("text", "please stop the weather report", FALSE),
      Req("text", PyNone, FALSE), Req("voice", PyNone, FALSE) }

\* What take_command() can return: "None", or the lowercased recognised text.
Heard == {"None", "weather", "stop it"}

\* The hours datetime.now().hour is drawn from.
Hours == {9, 22}

\* The texts that reach the engine as they are typed or heard.
InputTexts ==
    ({r.content : r \in Requests \cup DialogueRequests \cup FreshRequests}
        \cup Heard) \ {PyNone}

-----------------------------------------------------------------------------
(* str operations, computed on the characters as Python computes them.     *)

\* v in q
Contains(v, q) ==
    \E i \in 1..(Len(q) - Len(v) + 1) : SubSeq(q, i, i + Len(v) - 1) = v

UpperAlpha == "ABCDEFGHIJKLMNOPQRSTUVWXYZ"
LowerAlpha == "abcdefghijklmnopqrstuvwxyz"

LowerChar(ch) ==
    IF \E i \in 1..26 : SubSeq(UpperAlpha, i, i) = ch
    THEN LET i == CHOOSE j \in 1..26 : SubSeq(UpperAlpha, j, j) = ch
         IN  SubSeq(LowerAlpha, i, i)
    ELSE ch

RECURSIVE LowerOf(_)
LowerOf(s) ==
    IF s = "" THEN ""
    ELSE LowerChar(SubSeq(s, 1, 1)) \o LowerOf(SubSeq(s, 2, Len(s)))

\* The lowercase of the input texts, computed once.
LowerInputs == {LowerOf(s) : s \in InputTexts}
LowerTable == [s \in InputTexts \cup LowerInputs |-> LowerOf(s)]

\* s.lower()
lower(s) == IF s \in DOMAIN LowerTable THEN LowerTable[s] ELSE LowerOf(s)

RECURSIVE lstrip(_)
lstrip(s) ==
    IF s # "" /\ SubSeq(s, 1, 1) = " " THEN lstrip(SubSeq(s, 2, Len(s))) ELSE s

RECURSIVE rstrip(_)
rstrip(s) ==
    IF s # "" /\ SubSeq(s, Len(s), Len(s)) = " "
    THEN rstrip(SubSeq(s, 1, Len(s) - 1)) ELSE s

\* s.strip()
strip(s) == rstrip(lstrip(s))

RECURSIVE SplitFrom(_, _, _)
SplitFrom(s, i, cur) ==
    IF i > Len(s) THEN (IF cur = "" THEN {} ELSE {cur})
    ELSE IF SubSeq(s, i, i) = " "
         THEN (IF cur = "" THEN {} ELSE {cur}) \cup SplitFrom(s, i + 1, "")
         ELSE SplitFrom(s, i + 1, cur \o SubSeq(s, i, i))

\* set(s.split())
split(s) == SplitFrom(s, 1, "")

\* a if a >= b else b
Max(a, b) == IF a >= b THEN a ELSE b

-----------------------------------------------------------------------------
(* The intent tables of execute_command.                                   *)

stop_commands ==
    <<"stop", "exit", "quit", "bye", "goodbye", "shut down", "shutdown",
      "turn off">>

\* any(cmd in text for cmd in stop_commands)
AnyStopIn(text) ==
    \E j \in 1..Len(stop_commands) : Contains(stop_commands[j], text)

\* The same, computed once for the lowercased input texts.
StopTable == [s \in LowerInputs |-> AnyStopIn(s)]

\* A stop test that asks for the whole text to be a stop phrase.
HasStopPhrase_Whole(text) ==
    \E j \in 1..Len(stop_commands) : stop_commands[j] = text

HasStopPhrase(text) ==
    IF text \in DOMAIN StopTable THEN StopTable[text] ELSE AnyStopIn(text)

\* The dict command_patterns, in insertion order.
command_patterns == <<
    [cmd |-> "stop assistant", variations |->
        <<"stop", "exit", "quit", "bye", "goodbye", "shut down",
          "shutdown", "turn off", "stop listening", "stop assistant">>],
    [cmd |-> "how are you", variations |->
        <<"how are you", "how're you", "how you doing", "how do you do",
          "what's up", "how are things", "how is it going">>],
    [cmd |-> "open command prompt", variations |->
        <<"open cmd", "launch command prompt", "start cmd", "command prompt",
          "cmd", "terminal", "open terminal">>],
    [cmd |-> "open camera", variations |->
        <<"open camera", "launch camera", "start camera", "camera",
          "turn on camera", "show camera">>],
    [cmd |-> "open notepad", variations |->
        <<"open notepad", "launch notepad", "start notepad", "notepad",
          "text editor", "open text editor">>],
    [cmd |-> "open discord", variations |->
        <<"open discord", "launch discord", "start discord", "discord">>],
    [cmd |-> "open vs code", variations |->
        <<"open vs code", "launch vs code", "start vs code",
          "visual studio code", "vs code", "vscode", "code editor">>],
    [cmd |-> "ip address", variations |->
        <<"ip address", "what's my ip", "what is my ip", "show ip", "get ip",
          "network address", "my ip">>],
    [cmd |-> "youtube", variations |->
        <<"youtube", "play youtube", "search youtube", "find on youtube",
          "video", "play video">>],
    [cmd |-> "open google", variations |->
        <<"open google", "search google", "google search", "find on google",
          "google", "search the web", "web search">>],
    [cmd |-> "wikipedia", variations |->
        <<"wikipedia", "wiki search", "search wiki", "find on wikipedia",
          "wiki", "search wikipedia", "look up on wikipedia">>],
    [cmd |-> "give me news", variations |->
        <<"give me news", "show news", "latest news", "what's new",
          "current news", "news update", "tell me the news">>],
    [cmd |-> "weather", variations |->
        <<"weather", "what's the weather", "weather forecast", "temperature",
          "how's the weather", "is it going to rain", "weather report">>],
    [cmd |-> "send email", variations |->
        <<"send email", "compose email", "write email", "new email",
          "email", "send mail", "write mail">>],
    [cmd |-> "set reminder", variations |->
        <<"set reminder", "create reminder", "remind me", "new reminder",
          "set alarm", "reminder">>],
    [cmd |-> "stock price", variations |->
        <<"stock price", "check stocks", "stock market", "stock value",
          "stocks", "share price", "stock quote">>],
    [cmd |-> "exchange rate", variations |->
        <<"exchange rate", "currency exchange", "convert currency",
          "exchange currency", "currency conversion", "forex">>],
    [cmd |-> "generate password", variations |->
        <<"generate password", "create password", "new password",
          "random password", "password", "secure password">>],
    [cmd |-> "crypto price", variations |->
        <<"crypto price", "check crypto", "cryptocurrency price",
          "crypto value", "bitcoin price", "ethereum price">>],
    [cmd |-> "battery status", variations |->
        <<"battery status", "check battery", "battery level",
          "power status", "battery", "power level">>],
    [cmd |-> "current time", variations |->
        <<"current time", "what's the time", "tell me the time",
          "time please", "what time is it", "time">>],
    [cmd |-> "date and time", variations |->
        <<"date and time", "what's the date", "tell me the date",
          "date please", "what day is it", "date">>],
    [cmd |-> "ask gpt", variations |->
        <<"ask gpt", "chat gpt", "ask chat gpt", "question for gpt",
          "gpt", "ai chat">>],
    [cmd |-> "ask to ai", variations |->
        <<"ask to ai", "free gpt", "ask ai", "question for ai",
          "ai", "artificial intelligence">>] >>

\* The keys of the dict command_handlers.
command_handlers ==
    {"how are you", "open command prompt", "open camera", "open notepad",
     "open discord", "open vs code", "ip address", "youtube", "open google",
     "wikipedia", "give me news", "weather", "send email", "set reminder",
     "stock price", "exchange rate", "generate password", "crypto price",
     "battery status", "current time", "date and time", "ask gpt",
     "ask to ai"}

RECURSIVE FuzzyLoop_AtLeastHalf(_, _, _, _, _, _)
\* The third inner loop with the threshold test similarity >= 0.5.
FuzzyLoop_AtLeastHalf(query, k, j, matched, num, den) ==
    LET variations == command_patterns[k].variations IN
    IF j > Len(variations) THEN [matched |-> matched, num |-> num, den |-> den]
    ELSE LET variation_words == split(variations[j])
             query_words == split(query)
             c == Cardinality(variation_words \cap query_words)
             m == Max(Cardinality(variation_words), Cardinality(query_words))
         IN  IF c * den > num * m /\ 2 * c >= m
             THEN FuzzyLoop_AtLeastHalf(query, k, j + 1, command_patterns[k].cmd,
                                        c, m)
             ELSE FuzzyLoop_AtLeastHalf(query, k, j + 1, matched, num, den)

RECURSIVE FuzzyLoop(_, _, _, _, _, _)
\* The third inner loop: the similarity of each variation, as the fraction
\* num/den; similarity = c/m, compared by cross-multiplication.
FuzzyLoop(query, k, j, matched, num, den) ==
    LET variations == command_patterns[k].variations IN
    IF j > Len(variations) THEN [matched |-> matched, num |-> num, den |-> den]
    ELSE LET variation_words == split(variations[j])
             query_words == split(query)
             c == Cardinality(variation_words \cap query_words)
             m == Max(Cardinality(variation_words), Cardinality(query_words))
         IN  IF c * den > num * m /\ 2 * c > m
             THEN FuzzyLoop(query, k, j + 1, command_patterns[k].cmd, c, m)
             ELSE FuzzyLoop(query, k, j + 1, matched, num, den)

RECURSIVE MatchLoop(_, _, _, _, _)
\* The loop over command_patterns.items(): returns matched_command.
MatchLoop(query, k, matched, num, den) ==
    IF k > Len(command_patterns) THEN matched
    ELSE LET cmd == command_patterns[k].cmd
             variations == command_patterns[k].variations
         IN  IF \E j \in 1..Len(variations) : variations[j] = query
             THEN cmd
             ELSE IF \E j \in 1..Len(variations) : Contains(variations[j], query)
             THEN cmd
             ELSE IF matched # PyNone
             THEN matched
             ELSE LET r == FuzzyLoop(query, k, 1, matched, num, den)
                  IN  MatchLoop(query, k + 1, r.matched, r.num, r.den)

\* Lines 326-354: matched_command for a normalised query (PyNone when
\* nothing matches).
FindMatch(query) == MatchLoop(query, 1, PyNone, 0, 1)

\* The same, computed once for the normalised input texts.
MatchTable == [q \in {strip(s) : s \in LowerInputs} |-> FindMatch(q)]

MatchCommand(query) ==
    IF query \in DOMAIN MatchTable THEN MatchTable[query] ELSE FindMatch(query)

-----------------------------------------------------------------------------
(* The engine: VoiceAssistant(web_mode=True), the only instance app.py     *)
(* builds.  An engine operation is computed as its effect: the engine      *)
(* fields it leaves, the ordered list of output steps it performs, and the *)
(* exception it raises (PyNone when it returns).                           *)

web_mode == TRUE

\* How one external collaborator call ends: it returns a value, returns an
\* empty / not-found value, or raises.
CollabOutcomes == {"ok", "empty", "fail"}

\* Output steps, performed in order by the worker:
\*   speak  - self.speak(text): whatever assistant.speak is bound to then
\*   direct - response_capture.speak(text) of the command's own capture
\*   append - response_capture.responses.append(text)
\*   call   - a side-effecting collaborator of online.py is invoked with args
\* (ResponseCapture.response and VoiceAssistant.last_response are only ever
\* assigned, nothing reads them; they are not part of the state.)
Say(t) == [op |-> "speak", text |-> t]
Direct(t) == [op |-> "direct", text |-> t]
Added(t) == [op |-> "append", text |-> t]
Call(fn, args) == [op |-> "call", fn |-> fn, args |-> args]

Eff(a, out, exc) == [a |-> a, out |-> out, exc |-> exc]

\* The effect e of execute_command, with the value its local matched_command
\* had at line 356 (NotReached when the function returned before the loop).
NotReached == "<not reached>"
Matched(matched_command, e) ==
    [a |-> e.a, out |-> e.out, exc |-> e.exc,
     matched_command |-> matched_command]

\* The effect e of a collaborator's answer, preceded by its invocation.
Calling(fn, args, e) == Eff(e.a, <<Call(fn, args)>> \o e.out, e.exc)

UpperChar(ch) ==
    IF \E i \in 1..26 : SubSeq(LowerAlpha, i, i) = ch
    THEN LET i == CHOOSE j \in 1..26 : SubSeq(LowerAlpha, j, j) = ch
         IN  SubSeq(UpperAlpha, i, i)
    ELSE ch

RECURSIVE upper(_)
\* s.upper()
upper(s) ==
    IF s = "" THEN ""
    ELSE UpperChar(SubSeq(s, 1, 1)) \o upper(SubSeq(s, 2, Len(s)))

Digits == "0123456789"

\* int(s) does not raise ValueError: optional sign, then decimal digits.
IntOk(s) ==
    LET t == strip(s)
        d == IF t # "" /\ SubSeq(t, 1, 1) \in {"+", "-"}
             THEN SubSeq(t, 2, Len(t)) ELSE t
    IN  /\ d # ""
        /\ \A i \in 1..Len(d) : Contains(SubSeq(d, i, i), Digits)

\* A handle_stop that also ends the dialogue: it drops the pending slot.
handle_stop_Resets(a) ==
    Eff([a EXCEPT !.should_stop = TRUE, !.listening = FALSE,
                  !.pending_input = PyNone],
        <<Say("Goodbye! Have a great day!")>>, PyNone)

\* handle_stop, web mode: no os._exit.
handle_stop(a) ==
    Eff([a EXCEPT !.should_stop = TRUE, !.listening = FALSE],
        <<Say("Goodbye! Have a great day!")>>, PyNone)

\* A web-mode handler that only opens a slot.
OpenSlot(a, prompt, key) ==
    Eff([a EXCEPT !.pending_input = key], <<>>, PyNone)

open_application(a, co, opened, missing) ==
    Eff(a, <<Say(CASE co = "ok" -> opened
                   [] co = "empty" -> missing
                   [] OTHER -> "Error opening application")>>, PyNone)

\* A weather handler that starts the conversation afresh.
handle_weather_Resumes(a) ==
    Eff([a EXCEPT !.pending_input = "weather_city", !.should_stop = FALSE],
        <<Say("What city would you like to know the weather for?")>>, PyNone)

handle_weather(a) ==
    Eff([a EXCEPT !.pending_input = "weather_city"],
        <<Say("What city would you like to know the weather for?")>>, PyNone)

\* A greeting that asks back once and waits for the answer.
how_are_you_AsksBack(a) ==
    IF a.pending_input = PyNone
    THEN Eff([a EXCEPT !.pending_input = "how_are_you"],
             <<Say("I am absolutely fine, sir. What about you?")>>, PyNone)
    ELSE Eff([a EXCEPT !.pending_input = PyNone],
             <<Say("I am absolutely fine, sir.")>>, PyNone)

\* The lambda registered for "how are you".
how_are_you(a) ==
    Eff(a, <<Say("I am absolutely fine, sir. What about you?")>>, PyNone)

\* command_handlers[cmd](), web mode.
Handler(cmd, a, co) ==
    CASE cmd = "how are you" -> how_are_you(a)
      [] cmd \in {"open command prompt", "open camera", "open notepad"} ->
           Eff(a, <<>>, PyNone)
      [] cmd = "open discord" ->
           open_application(a, co, "Opening Discord.exe",
                            "Application path not found")
      [] cmd = "open vs code" ->
           open_application(a, co, "Opening Visual Studio Code",
                            "Could not find Visual Studio Code installation")
      [] cmd = "ip address" ->
           IF co = "fail" THEN Eff(a, <<>>, "All IP services failed")
           ELSE Eff(a, <<Say("Your IP address is <ip>")>>, PyNone)
      [] cmd = "youtube" ->
           OpenSlot(a, "What do you want to play on YouTube?", "youtube_query")
      [] cmd = "open google" ->
           OpenSlot(a, "What do you want to search on Google?", "google_query")
      [] cmd = "wikipedia" ->
           OpenSlot(a, "What do you want to search on Wikipedia?", "wiki_query")
      [] cmd = "give me news" ->
           CASE co = "fail" ->
                  Eff(a, <<Say("Fetching the latest news headlines...")>>,
                      "Network error while fetching news")
             [] co = "empty" ->
                  Eff(a, <<Say("Fetching the latest news headlines...")>>, PyNone)
             [] OTHER ->
                  Eff(a, <<Say("Fetching the latest news headlines..."),
                           Say("<headline>")>>, PyNone)
      [] cmd = "weather" -> handle_weather(a)
      [] cmd = "send email" ->
           OpenSlot(a, "Please enter the recipient's email:", "email_recipient")
      [] cmd = "set reminder" ->
           OpenSlot(a, "What task should I remind you about?", "reminder_task")
      [] cmd = "stock price" ->
           OpenSlot(a, "Which stock price would you like to check? (Enter symbol)",
                    "stock_symbol")
      [] cmd = "exchange rate" ->
           OpenSlot(a, "Enter base currency (e.g., USD):", "exchange_base")
      [] cmd = "generate password" ->
           OpenSlot(a, "What length should the password be? (default is 12)",
                    "password_length")
      [] cmd = "crypto price" ->
           OpenSlot(a, "Which cryptocurrency price would you like to check? (e.g., btc, eth)",
                    "crypto_symbol")
      [] cmd = "battery status" ->
           IF co = "fail" THEN Eff(a, <<>>, "Error getting battery status")
           ELSE Eff(a, <<Say(IF co = "ok" THEN "Battery is at <n>% and is <status>"
                             ELSE "Could not get battery information")>>, PyNone)
      [] cmd \in {"current time", "date and time"} ->
           IF co = "fail" THEN Eff(a, <<>>, "Error getting date and time")
           ELSE Eff(a, <<Say("It's <time> on <date>")>>, PyNone)
      [] cmd = "ask gpt" ->
           OpenSlot(a, "What would you like to ask GPT?", "gpt_query")
      [] cmd = "ask to ai" ->
           OpenSlot(a, "What would you like to ask?", "free_gpt_query")

\* A dispatch that gives up the open slot when nothing matches.
Dispatch_UnknownResets(a, matched_command, co) ==
    IF matched_command = PyNone
    THEN Eff([a EXCEPT !.pending_input = PyNone],
             <<Say("I'm not sure what you want me to do. Could you please rephrase that?")>>,
             PyNone)
    ELSE IF matched_command \notin command_handlers
    THEN Eff(a, <<Say("Sorry, there was an error: '" \o matched_command \o "'")>>,
             PyNone)
    ELSE LET h == Handler(matched_command, a, co) IN
         IF h.exc = PyNone THEN h
         ELSE Eff(h.a, h.out \o <<Say("Sorry, there was an error: " \o h.exc)>>,
                  PyNone)

\* Lines 356-367: look the handler up and call it inside try, or ask to
\* rephrase.
Dispatch(a, matched_command, co) ==
    IF matched_command = PyNone
    THEN Eff(a, <<Say("I'm not sure what you want me to do. Could you please rephrase that?")>>,
             PyNone)
    ELSE IF matched_command \notin command_handlers
    THEN \* KeyError(matched_command), caught like a handler's exception
         Eff(a, <<Say("Sorry, there was an error: '" \o matched_command \o "'")>>,
             PyNone)
    ELSE LET h == Handler(matched_command, a, co) IN
         IF h.exc = PyNone THEN h
         ELSE Eff(h.a, h.out \o <<Say("Sorry, there was an error: " \o h.exc)>>,
                  PyNone)

\* An execute_command that takes whatever is said while a slot is pending
\* as unmatched.
execute_command_SlotAware(a, query, co) ==
    IF query = PyNone \/ query = "" \/ query = "None"
    THEN Matched(NotReached,
                 Eff(a, <<Say("I couldn't hear you clearly. Please try again.")>>,
                     PyNone))
    ELSE IF HasStopPhrase(lower(query))
    THEN Matched(NotReached, handle_stop(a))
    ELSE LET matched_command == IF a.pending_input # PyNone THEN PyNone
                                ELSE MatchCommand(strip(lower(query)))
         IN  Matched(matched_command, Dispatch(a, matched_command, co))

\* execute_command(query): never raises, the handler call is inside try.
execute_command(a, query, co) ==
    IF query = PyNone \/ query = "" \/ query = "None"
    THEN Matched(NotReached,
                 Eff(a, <<Say("I couldn't hear you clearly. Please try again.")>>,
                     PyNone))
    ELSE IF HasStopPhrase(lower(query))
    THEN Matched(NotReached, handle_stop(a))
    ELSE LET matched_command == MatchCommand(strip(lower(query)))
         IN  Matched(matched_command, Dispatch(a, matched_command, co))

\* _process_weather without its try/except: a failing weather_forecast
\* escapes to the caller.
_process_weather_Unguarded(a, city, co) ==
    IF co = "fail"
    THEN Eff(a, <<Say("Fetching weather details for " \o city \o "...")>>,
             "Network error while fetching weather")
    ELSE Eff(a,
             <<Say("Fetching weather details for " \o city \o "..."),
               Say(IF co = "ok"
                   THEN "Current weather in " \o city \o ": <weather>."
                   ELSE "Sorry, I couldn't find weather information for " \o city)>>,
             PyNone)

\* A _process_weather that asks for the city again when nothing is found.
_process_weather_Reasks(a, city, co) ==
    IF co = "empty"
    THEN Eff([a EXCEPT !.pending_input = "weather_city"],
             <<Say("Fetching weather details for " \o city \o "..."),
               Say("Sorry, I couldn't find weather information for " \o city)>>,
             PyNone)
    ELSE Eff(a,
             <<Say("Fetching weather details for " \o city \o "..."),
               Say(IF co = "ok"
                   THEN "Current weather in " \o city \o ": <weather>."
                   ELSE "Sorry, I had trouble getting weather information for "
                        \o city \o ". Please try again.")>>,
             PyNone)

_process_weather(a, city, co) ==
    Eff(a,
        <<Say("Fetching weather details for " \o city \o "..."),
          Say(CASE co = "ok" ->
                     "Current weather in " \o city \o ": <weather>. Temperature is <temp> degrees Celsius (feels like <feels_like> degrees Celsius). Humidity is <humidity>% with wind speed of <wind_speed> meters per second."
                [] co = "empty" ->
                     "Sorry, I couldn't find weather information for " \o city
                [] OTHER ->
                     "Sorry, I had trouble getting weather information for " \o city \o ". Please try again.")>>,
        PyNone)

\* A one-step slot handler: one collaborator call, then speak its answer.
Answer(a, co, said, error) ==
    IF co = "fail" THEN Eff(a, <<>>, error) ELSE Eff(a, said, PyNone)

_process_password(a, length, co) ==
    IF length = "" \/ IntOk(length)
    THEN Answer(a, co, <<Say("Generated password: <password>")>>,
                "Error generating password")
    ELSE Answer(a, co, <<Say("Invalid length. Using default length of 12."),
                         Say("Generated password: <password>")>>,
                "Error generating password")

\* The first step as it runs outside web mode: it asks for the time itself
\* and sets the reminder at once.
_process_reminder_step1_Desktop(a, task) ==
    Calling("set_reminder", <<task, "10:30 AM">>,
            Eff(a, <<Say("At what time?"),
                     Say("Reminder set for: 10:30 AM - " \o task)>>, PyNone))

\* A first step that asks for the time and does not keep the task.
_process_reminder_step1_Forgets(a, task) ==
    Eff([a EXCEPT !.pending_input = "reminder_time"], <<>>, PyNone)

_process_reminder_step1(a, task) ==
    Eff([a EXCEPT !.pending_input = "reminder_time", !.temp_reminder = task],
        <<>>, PyNone)

_process_reminder_final(a, task, time, co) ==
    IF task = PyNone
    THEN Eff(a, <<>>, "'VoiceAssistant' object has no attribute '_temp_reminder'")
    ELSE Calling("set_reminder", <<task, time>>,
                 Answer(a, co, <<Say("Reminder set for: " \o time \o " - " \o task)>>,
                        "[Errno 13] Permission denied: 'reminders.txt'"))

\* A first step that asks for the target and does not keep the base.
_process_exchange_step1_Forgets(a, base_currency) ==
    Eff([a EXCEPT !.pending_input = "exchange_target"], <<>>, PyNone)

_process_exchange_step1(a, base_currency) ==
    Eff([a EXCEPT !.pending_input = "exchange_target",
                  !.temp_exchange = base_currency],
        <<>>, PyNone)

\* get_exchange_rate(base.upper(), target.upper()): the two validations
\* raise before any request; otherwise the request decides.
_process_exchange_final(a, base_currency, target_currency, co) ==
    IF base_currency = PyNone
    THEN Eff(a, <<>>, "'VoiceAssistant' object has no attribute '_temp_exchange'")
    ELSE LET b == upper(base_currency)
             t == upper(target_currency)
         IN  Calling("get_exchange_rate", <<b, t>>,
                 IF b = "" \/ t = ""
                 THEN Eff(a, <<>>, "Both base and target currencies are required")
                 ELSE IF Len(b) # 3 \/ Len(t) # 3
                 THEN Eff(a, <<>>, "Currency codes must be 3 letters (e.g., USD, EUR)")
                 ELSE Answer(a, co,
                             <<Say("Exchange Rate: 1 " \o b \o " = <rate> " \o t
                                   \o "\nLast Updated: <timestamp> UTC")>>,
                             "Network error while fetching exchange rate"))

\* process_pending_input(user_input): exc is the exception it lets escape.
process_pending_input(a, user_input, co) ==
    IF a.pending_input = PyNone THEN Eff(a, <<>>, PyNone)
    ELSE
    LET input_type == a.pending_input
        b == [a EXCEPT !.pending_input = PyNone]
    IN  CASE input_type = "email_recipient" ->
               Eff(b, <<>>, "'VoiceAssistant' object has no attribute '_process_email_step1'")
          [] input_type \in {"email_subject", "email_message"} ->
               Eff(b, <<>>, "'VoiceAssistant' object has no attribute '_temp_email'")
          [] input_type = "reminder_task" -> _process_reminder_step1(b, user_input)
          [] input_type = "reminder_time" ->
               _process_reminder_final(b, b.temp_reminder, user_input, co)
          [] input_type = "exchange_base" -> _process_exchange_step1(b, user_input)
          [] input_type = "exchange_target" ->
               _process_exchange_final(b, b.temp_exchange, user_input, co)
          [] input_type = "weather_city" -> _process_weather(b, user_input, co)
          [] input_type = "youtube_query" ->
               Answer(b, co, <<Say("Playing " \o user_input \o " on YouTube")>>,
                      "Error playing YouTube video")
          [] input_type = "google_query" ->
               Answer(b, co, <<Say("Searching for " \o user_input \o " on Google")>>,
                      "Error performing Google search")
          [] input_type = "wiki_query" ->
               Answer(b, co, <<Say("Here's what I found on Wikipedia:"),
                               Say(IF co = "ok" THEN "<summary>"
                                   ELSE "Sorry, I couldn't find any Wikipedia article about "
                                        \o user_input)>>,
                      "Error searching Wikipedia")
          [] input_type = "gpt_query" ->
               Eff(b, <<Say(IF co = "ok" THEN "<gpt answer>"
                            ELSE "Failed to fetch GPT response: <error>")>>, PyNone)
          [] input_type = "free_gpt_query" ->
               Eff(b, <<Say(CASE co = "ok" -> "<generated_text>"
                              [] co = "empty" -> "I couldn't generate a response."
                              [] OTHER -> "Failed to fetch AI response: <error>")>>,
                   PyNone)
          [] input_type = "stock_symbol" ->
               Answer(b, co,
                      <<Say(IF co = "ok"
                            THEN "The current price of " \o upper(user_input) \o " is $<price>"
                            ELSE "Could not find stock information for " \o upper(user_input))>>,
                      "Error getting stock price")
          [] input_type = "crypto_symbol" ->
               Answer(b, co,
                      <<Say(IF co = "ok"
                            THEN "The current price of " \o upper(lower(user_input)) \o " is $<price>"
                            ELSE "Could not find price for " \o lower(user_input))>>,
                      "Error getting crypto price")
          [] input_type = "password_length" -> _process_password(b, user_input, co)
          [] OTHER -> Eff(b, <<>>, PyNone)

-----------------------------------------------------------------------------
(* The pipeline of app.py.                                                 *)

\* Bounds: the number of /send_command requests and of GET / requests.
MaxCallers == 2
MaxHome == 1

Callers == 1..MaxCallers
Homes == 1..MaxHome

\* The objects assistant.speak can be bound to: the engine's own speak
\* (text-to-speech), the speak of the ResponseCapture made for command i,
\* the speak of the ResponseCapture made by GET / request h.
Tts == <<"tts", 0>>
Cap(i) == <<"cmd", i>>
HomeCap(h) == <<"home", h>>
NoSink == <<"none", 0>>
Sinks == {Tts} \cup {Cap(i) : i \in Callers} \cup {HomeCap(h) : h \in Homes}

VARIABLES
    assistant,       \* the VoiceAssistant's fields
    command_queue,   \* queue.Queue(): the commands, oldest first
    response_queue,  \* queue.Queue(): the results, oldest first
    sinks,           \* sink -> the utterances it received, in order
    w,               \* the worker thread: its position and locals, and (history)
                     \* the branch that took the command, the text it handled,
                     \* the slot that was pending before, the collaborator
                     \* invocations made for it and the intent matched for it
    cpc, reply,      \* per /send_command request: position, HTTP response
    hpc, horig,      \* per GET / request: position, its original_speak
    enqueued,        \* history: command ids in the order they were enqueued
    produced,        \* history: the results in the order the worker made them,
                     \* each with the text handled, the slot that was pending
                     \* before and the collaborator invocations
    gaveup           \* history: per request, who had timed out when it was posted

vars == <<assistant, command_queue, response_queue, sinks, w, cpc, reply,
          hpc, horig, enqueued, produced, gaveup>>

\* An utterance, tagged with the unit of work it was emitted for.
Utt(by, text) == [by |-> by, text |-> text]

NoCommand == [id |-> 0, type |-> PyNone, content |-> PyNone,
              is_response |-> FALSE, after_stop |-> FALSE]

NoReply == [status |-> PyNone, cmd |-> 0]

Init ==
    /\ assistant = [speak |-> Tts, pending_input |-> PyNone,
                    should_stop |-> FALSE,
                    listening |-> FALSE, temp_reminder |-> PyNone,
                    temp_exchange |-> PyNone]
    /\ command_queue = <<>>
    /\ response_queue = <<>>
    /\ sinks = [s \in Sinks |-> <<>>]
    /\ w = [pc |-> "get", command |-> NoCommand, original_speak |-> NoSink,
            plan |-> <<>>, outcome |-> PyNone, exc |-> PyNone,
            route |-> PyNone, query |-> PyNone, pending_before |-> PyNone,
            calls |-> <<>>, matched_command |-> NotReached]
    /\ cpc = [c \in Callers |-> "idle"]
    /\ reply = [c \in Callers |-> NoReply]
    /\ hpc = [h \in Homes |-> "idle"]
    /\ horig = [h \in Homes |-> NoSink]
    /\ enqueued = <<>>
    /\ produced = <<>>
    /\ gaveup = [c \in Callers |-> {}]

-----------------------------------------------------------------------------
(* send_command: the request threads.                                      *)

TimeoutResponse ==
    [status |-> "error",
     message |-> "Command processing timeout. Please try again.",
     requires_input |-> FALSE, input_type |-> PyNone, all_responses |-> <<>>,
     success |-> FALSE, cmd |-> 0]

InvalidTypeResponse ==
    [status |-> "error", message |-> "Invalid command type",
     requires_input |-> FALSE, input_type |-> PyNone, all_responses |-> <<>>,
     success |-> FALSE, cmd |-> 0]

BadRequestResponse ==
    [status |-> "error",
     message |-> "Error processing request: 'NoneType' object has no attribute 'get'",
     requires_input |-> FALSE, input_type |-> PyNone, all_responses |-> <<>>,
     success |-> FALSE, cmd |-> 0]

TimedOut(c) == cpc[c] = "done" /\ reply[c] = TimeoutResponse

\* A send_command that enqueues a command of any type.
CSubmit_AnyType(c, data) ==
    /\ cpc[c] = "idle"
    /\ \A d \in Callers : d < c => cpc[d] # "idle"
    /\ IF ~data.json
       THEN /\ cpc' = [cpc EXCEPT ![c] = "done"]
            /\ reply' = [reply EXCEPT ![c] = BadRequestResponse]
            /\ UNCHANGED <<command_queue, enqueued>>
       ELSE /\ command_queue' = Append(command_queue,
                   [id |-> c, type |-> data.type, content |-> data.content,
                    is_response |-> data.is_response,
                    after_stop |-> assistant.should_stop])
            /\ enqueued' = Append(enqueued, c)
            /\ cpc' = [cpc EXCEPT ![c] = "wait"]
            /\ UNCHANGED reply
    /\ gaveup' = [gaveup EXCEPT ![c] = {d \in Callers : TimedOut(d)}]
    /\ UNCHANGED <<assistant, response_queue, sinks, w, hpc, horig, produced>>

\* Lines 146-157: read the body, enqueue a text or voice command.  Requests
\* are numbered in the order they arrive.
CSubmit(c, data) ==
    /\ cpc[c] = "idle"
    /\ \A d \in Callers : d < c => cpc[d] # "idle"
    /\ IF ~data.json
       THEN /\ cpc' = [cpc EXCEPT ![c] = "done"]
            /\ reply' = [reply EXCEPT ![c] = BadRequestResponse]
            /\ UNCHANGED <<command_queue, enqueued>>
       ELSE IF data.type \in {"text", "voice"}
       THEN /\ command_queue' = Append(command_queue,
                   [id |-> c, type |-> data.type, content |-> data.content,
                    is_response |-> data.is_response,
                    after_stop |-> assistant.should_stop])
            /\ enqueued' = Append(enqueued, c)
            /\ cpc' = [cpc EXCEPT ![c] = "wait"]
            /\ UNCHANGED reply
       ELSE /\ cpc' = [cpc EXCEPT ![c] = "done"]
            /\ reply' = [reply EXCEPT ![c] = InvalidTypeResponse]
            /\ UNCHANGED <<command_queue, enqueued>>
    /\ gaveup' = [gaveup EXCEPT ![c] = {d \in Callers : TimedOut(d)}]
    /\ UNCHANGED <<assistant, response_queue, sinks, w, hpc, horig, produced>>

\* The list a result's all_responses refers to, as it is now.
AllResponses(r) == IF r.all_ref = NoSink THEN r.all_lit ELSE sinks[r.all_ref]

\* Lines 161-169: response_queue.get returned a result in time.
CReceive(c) ==
    /\ cpc[c] = "wait"
    /\ response_queue # <<>>
    /\ LET response == Head(response_queue) IN
       reply' = [reply EXCEPT ![c] =
                    [status |-> "success", message |-> response.message,
                     requires_input |-> response.requires_input,
                     input_type |-> response.input_type,
                     all_responses |-> AllResponses(response),
                     success |-> response.success, cmd |-> response.cmd]]
    /\ response_queue' = Tail(response_queue)
    /\ cpc' = [cpc EXCEPT ![c] = "done"]
    /\ UNCHANGED <<assistant, command_queue, sinks, w, hpc, horig, enqueued,
                   produced, gaveup>>

\* A response_queue.get() without a timeout: queue.Empty is never raised.
CTimeout_Forever(c) ==
    /\ cpc[c] = "wait"
    /\ FALSE
    /\ UNCHANGED vars

\* Lines 170-176: queue.Empty, nothing arrived for 30 seconds.
CTimeout(c) ==
    /\ cpc[c] = "wait"
    /\ response_queue = <<>>
    /\ reply' = [reply EXCEPT ![c] = TimeoutResponse]
    /\ cpc' = [cpc EXCEPT ![c] = "done"]
    /\ UNCHANGED <<assistant, command_queue, response_queue, sinks, w, hpc,
                   horig, enqueued, produced, gaveup>>

-----------------------------------------------------------------------------
(* process_commands: the worker thread.                                    *)

\* What processing one dequeued command amounts to: the engine fields it
\* leaves, its output steps, how the loop body ends ("normal": falls through
\* to line 101, "stop": the continue of the Stop branch, "raise": the except
\* clause), and which branch took the command.
Done(e, outcome, route, query) ==
    [a |-> e.a, out |-> e.out, exc |-> e.exc, outcome |-> outcome,
     route |-> route, query |-> query,
     matched_command |-> IF "matched_command" \in DOMAIN e
                         THEN e.matched_command ELSE NotReached]

\* The text branch with the pending-input test ahead of the stop test.
TextCommand_PendingFirst(a, command, co) ==
    IF command.content = PyNone
    THEN Done(Eff(a, <<>>, "'NoneType' object has no attribute 'lower'"),
              "raise", "raise", PyNone)
    ELSE IF a.pending_input # PyNone /\ command.is_response
    THEN LET e == process_pending_input(a, command.content, co)
         IN  Done(e, IF e.exc = PyNone THEN "normal" ELSE "raise", "pending",
                  command.content)
    ELSE IF HasStopPhrase(lower(command.content))
    THEN Done(handle_stop(a), "stop", "stop", command.content)
    ELSE Done(execute_command(a, lower(command.content), co), "normal",
              "execute", command.content)

\* The text branch of the variant that gives every text to the pending
\* slot, flagged or not.
TextCommand_AlwaysSlot(a, command, co) ==
    IF command.content = PyNone
    THEN Done(Eff(a, <<>>, "'NoneType' object has no attribute 'lower'"),
              "raise", "raise", PyNone)
    ELSE IF HasStopPhrase(lower(command.content))
    THEN Done(handle_stop(a), "stop", "stop", command.content)
    ELSE IF a.pending_input # PyNone
    THEN LET e == process_pending_input(a, command.content, co)
         IN  Done(e, IF e.exc = PyNone THEN "normal" ELSE "raise", "pending",
                  command.content)
    ELSE Done(execute_command(a, lower(command.content), co), "normal",
              "execute", command.content)

\* The text branch of the variant that trusts the flag alone: a flagged
\* text goes to process_pending_input whether a slot is pending or not.
TextCommand_FlagOnly(a, command, co) ==
    IF command.content = PyNone
    THEN Done(Eff(a, <<>>, "'NoneType' object has no attribute 'lower'"),
              "raise", "raise", PyNone)
    ELSE IF HasStopPhrase(lower(command.content))
    THEN Done(handle_stop(a), "stop", "stop", command.content)
    ELSE IF command.is_response
    THEN LET e == process_pending_input(a, command.content, co)
         IN  Done(e, IF e.exc = PyNone THEN "normal" ELSE "raise", "pending",
                  command.content)
    ELSE Done(execute_command(a, lower(command.content), co), "normal",
              "execute", command.content)

\* Lines 44-64: the body for a command of type "text".
TextCommand(a, command, co) ==
    IF command.content = PyNone
    THEN Done(Eff(a, <<>>, "'NoneType' object has no attribute 'lower'"),
              "raise", "raise", PyNone)
    ELSE IF HasStopPhrase(lower(command.content))
    THEN Done(handle_stop(a), "stop", "stop", command.content)
    ELSE IF a.pending_input # PyNone /\ command.is_response
    THEN LET e == process_pending_input(a, command.content, co)
         IN  Done(e, IF e.exc = PyNone THEN "normal" ELSE "raise", "pending",
                  command.content)
    ELSE Done(execute_command(a, lower(command.content), co), "normal",
              "execute", command.content)

\* Lines 65-99: the body for a command of type "voice"; first and second
\* are what the two take_command() calls return.
VoiceCommand(a, first, second, co) ==
    LET listen == [a EXCEPT !.listening = TRUE]
        retry == IF first = "None"
                 THEN <<Direct("I didn't catch that. Please speak again.")>>
                 ELSE <<>>
        query == IF first = "None" THEN second ELSE first
    IN  IF query # "None"
        THEN IF HasStopPhrase(lower(query))
             THEN LET e == handle_stop(listen)
                  IN  Done(Eff(e.a, retry \o e.out, PyNone), "stop", "stop", query)
             ELSE LET e == execute_command(listen, lower(query), co)
                  IN  Done(Matched(e.matched_command,
                                   Eff([e.a EXCEPT !.listening = FALSE],
                                       retry \o <<Added("You said: " \o query)>>
                                             \o e.out,
                                       PyNone)),
                           "normal", "execute", query)
        ELSE Done(Eff([listen EXCEPT !.listening = FALSE],
                      retry \o <<Direct("I'm having trouble understanding. Please try speaking clearly and check your microphone.")>>,
                      PyNone),
                  "normal", "unheard", query)

\* Lines 42-99: assistant.speak is bound to the command's capture, then the
\* branch for the command's type runs.
Command(assistant0, command, first, second, co) ==
    LET a == [assistant0 EXCEPT !.speak = Cap(command.id)]
    IN  CASE command.type = "text" -> TextCommand(a, command, co)
          [] command.type = "voice" -> VoiceCommand(a, first, second, co)
          [] OTHER -> Done(Eff(a, <<>>, PyNone), "normal", "none", PyNone)

\* A worker that takes the newest command instead of the oldest.
WGet_Lifo ==
    /\ w.pc = "get"
    /\ command_queue # <<>>
    /\ w' = [w EXCEPT !.pc = "proc",
                      !.command = command_queue[Len(command_queue)],
                      !.original_speak = assistant.speak, !.plan = <<>>,
                      !.outcome = PyNone, !.exc = PyNone, !.route = PyNone,
                      !.query = PyNone, !.pending_before = PyNone,
                      !.calls = <<>>, !.matched_command = NotReached]
    /\ command_queue' = SubSeq(command_queue, 1, Len(command_queue) - 1)
    /\ UNCHANGED <<assistant, response_queue, sinks, cpc, reply, hpc, horig,
                   enqueued, produced, gaveup>>

\* Lines 38-41: take the oldest command, make its ResponseCapture (the sink
\* Cap(id), still empty), remember what assistant.speak is bound to.
WGet ==
    /\ w.pc = "get"
    /\ command_queue # <<>>
    /\ w' = [w EXCEPT !.pc = "proc", !.command = Head(command_queue),
                      !.original_speak = assistant.speak, !.plan = <<>>,
                      !.outcome = PyNone, !.exc = PyNone, !.route = PyNone,
                      !.query = PyNone, !.pending_before = PyNone,
                      !.calls = <<>>, !.matched_command = NotReached]
    /\ command_queue' = Tail(command_queue)
    /\ UNCHANGED <<assistant, response_queue, sinks, cpc, reply, hpc, horig,
                   enqueued, produced, gaveup>>

\* Lines 42-99: bind assistant.speak to the capture, then the engine handles
\* the command.  Besides speak, the fields changed here are used by the worker
\* alone; the output steps are then performed one by one.
WProcess(first, second, co) ==
    /\ w.pc = "proc"
    /\ w.command.type = "voice" \/ first = "None"
    /\ first = "None" \/ second = "None"
    /\ \E d \in {Command(assistant, w.command, first, second, co)} :
          /\ assistant' = d.a
          /\ w' = [w EXCEPT !.pc = "emit", !.plan = d.out,
                            !.outcome = d.outcome, !.exc = d.exc,
                            !.route = d.route, !.query = d.query,
                            !.pending_before = assistant.pending_input,
                            !.matched_command = d.matched_command]
    /\ UNCHANGED <<command_queue, response_queue, sinks, cpc, reply, hpc,
                   horig, enqueued, produced, gaveup>>

\* One call of the function a speak attribute is bound to: the engine's own
\* speak (lines 65-74 of main.py) or a ResponseCapture's (lines 29-32).
Speak(sink, by, text) ==
    sinks' = [sinks EXCEPT ![sink] = Append(@, Utt(by, text))]

\* The next output step of the command being processed.
WEmit ==
    /\ w.pc = "emit"
    /\ w.plan # <<>>
    /\ LET step == Head(w.plan)
           me == Cap(w.command.id)
       IN  CASE step.op = "speak" ->
                  /\ Speak(assistant.speak, me, step.text)
                  /\ w' = [w EXCEPT !.plan = Tail(@)]
             [] step.op = "call" ->
                  /\ sinks' = sinks
                  /\ w' = [w EXCEPT !.plan = Tail(@), !.calls = Append(@, step)]
             [] OTHER ->
                  /\ Speak(me, me, step.text)
                  /\ w' = [w EXCEPT !.plan = Tail(@)]
    /\ UNCHANGED <<assistant, command_queue, response_queue, cpc, reply, hpc, horig,
                   enqueued, produced, gaveup>>

Put(result) ==
    /\ response_queue' = Append(response_queue, result)
    /\ produced' = Append(produced,
                          result @@ [query |-> w.query,
                                     pending_before |-> w.pending_before,
                                     calls |-> w.calls,
                                     matched_command |-> w.matched_command])
    /\ w' = [w EXCEPT !.pc = "get"]

\* A normal path that reports the first captured utterance as the message.
WRestorePut_FirstUtterance ==
    /\ w.pc = "emit" /\ w.plan = <<>> /\ w.outcome = "normal"
    /\ assistant' = [assistant EXCEPT !.speak = w.original_speak]
    /\ LET responses == sinks[Cap(w.command.id)] IN
       Put([message |-> IF responses # <<>>
                        THEN responses[1].text
                        ELSE "Command processed successfully",
            requires_input |-> assistant.pending_input # PyNone,
            input_type |-> assistant.pending_input,
            all_ref |-> Cap(w.command.id), all_lit |-> <<>>,
            success |-> TRUE, should_stop |-> assistant.should_stop,
            cmd |-> w.command.id, route |-> w.route])
    /\ UNCHANGED <<command_queue, sinks, cpc, reply, hpc, horig, enqueued,
                   gaveup>>

\* Lines 101-114: restore speak, put the result built from the capture.
WRestorePut ==
    /\ w.pc = "emit" /\ w.plan = <<>> /\ w.outcome = "normal"
    /\ assistant' = [assistant EXCEPT !.speak = w.original_speak]
    /\ LET responses == sinks[Cap(w.command.id)] IN
       Put([message |-> IF responses # <<>>
                        THEN responses[Len(responses)].text
                        ELSE "Command processed successfully",
            requires_input |-> assistant.pending_input # PyNone,
            input_type |-> assistant.pending_input,
            all_ref |-> Cap(w.command.id), all_lit |-> <<>>,
            success |-> TRUE, should_stop |-> assistant.should_stop,
            cmd |-> w.command.id, route |-> w.route])
    /\ UNCHANGED <<command_queue, sinks, cpc, reply, hpc, horig, enqueued,
                   gaveup>>

\* A Stop branch that continues without putting a result.
WPutStop_Silent ==
    /\ w.pc = "emit" /\ w.plan = <<>> /\ w.outcome = "stop"
    /\ w' = [w EXCEPT !.pc = "get"]
    /\ UNCHANGED <<assistant, command_queue, response_queue, sinks, cpc, reply,
                   hpc, horig, enqueued, produced, gaveup>>

\* Lines 48-56 and 82-90: the Stop branch puts its result and continues.
WPutStop ==
    /\ w.pc = "emit" /\ w.plan = <<>> /\ w.outcome = "stop"
    /\ Put([message |-> "Goodbye! Have a great day!",
            requires_input |-> FALSE, input_type |-> PyNone,
            all_ref |-> NoSink,
            all_lit |-> <<Utt(Cap(w.command.id), "Goodbye! Have a great day!")>>,
            success |-> TRUE, should_stop |-> TRUE,
            cmd |-> w.command.id, route |-> w.route])
    /\ UNCHANGED <<assistant, command_queue, sinks, cpc, reply, hpc, horig,
                   enqueued, gaveup>>

\* A loop without the except clause: the exception ends the worker thread.
WPutError_Dies ==
    /\ w.pc = "emit" /\ w.plan = <<>> /\ w.outcome = "raise"
    /\ w' = [w EXCEPT !.pc = "dead"]
    /\ UNCHANGED <<assistant, command_queue, response_queue, sinks, cpc, reply,
                   hpc, horig, enqueued, produced, gaveup>>

\* Lines 115-124: the except clause puts an error result; the loop goes on.
WPutError ==
    /\ w.pc = "emit" /\ w.plan = <<>> /\ w.outcome = "raise"
    /\ LET error_msg == "Error processing command: " \o w.exc IN
       Put([message |-> error_msg,
            requires_input |-> FALSE, input_type |-> PyNone,
            all_ref |-> NoSink,
            all_lit |-> <<Utt(Cap(w.command.id), error_msg)>>,
            success |-> FALSE, should_stop |-> FALSE,
            cmd |-> w.command.id, route |-> w.route])
    /\ UNCHANGED <<assistant, command_queue, sinks, cpc, reply, hpc, horig,
                   enqueued, gaveup>>

process_commands ==
    \/ WGet
    \/ \E first \in Heard, second \in Heard, co \in CollabOutcomes :
          WProcess(first, second, co)
    \/ WEmit
    \/ WRestorePut
    \/ WPutStop
    \/ WPutError

-----------------------------------------------------------------------------
(* home: the GET / request threads.                                        *)

\* greet_me: the greeting for the hour (USER and BOT at their defaults).
greeting(hour) ==
    "Good " \o (IF 6 <= hour /\ hour < 12 THEN "Morning"
                ELSE IF 12 <= hour /\ hour < 16 THEN "Afternoon"
                ELSE IF 16 <= hour /\ hour < 19 THEN "Evening"
                ELSE "Night")
            \o " User. I am Jarvis. How may I assist you?"

\* Lines 135-136: make a ResponseCapture, read assistant.speak.
HRead(h) ==
    /\ hpc[h] = "idle"
    /\ horig' = [horig EXCEPT ![h] = assistant.speak]
    /\ hpc' = [hpc EXCEPT ![h] = "install"]
    /\ UNCHANGED <<assistant, command_queue, response_queue, sinks, w, cpc,
                   reply, enqueued, produced, gaveup>>

\* Line 137: assistant.speak = response_capture.speak
HInstall(h) ==
    /\ hpc[h] = "install"
    /\ assistant' = [assistant EXCEPT !.speak = HomeCap(h)]
    /\ hpc' = [hpc EXCEPT ![h] = "greet"]
    /\ UNCHANGED <<command_queue, response_queue, sinks, w, cpc, reply, horig,
                   enqueued, produced, gaveup>>

\* A greeting that also starts the conversation afresh.
HGreet_Resets(h, hour) ==
    /\ hpc[h] = "greet"
    /\ Speak(assistant.speak, HomeCap(h), greeting(hour))
    /\ assistant' = [assistant EXCEPT !.pending_input = PyNone]
    /\ hpc' = [hpc EXCEPT ![h] = "restore"]
    /\ UNCHANGED <<command_queue, response_queue, w, cpc, reply, horig,
                   enqueued, produced, gaveup>>

\* Line 138: assistant.greet_me() speaks through assistant.speak.
HGreet(h, hour) ==
    /\ hpc[h] = "greet"
    /\ Speak(assistant.speak, HomeCap(h), greeting(hour))
    /\ hpc' = [hpc EXCEPT ![h] = "restore"]
    /\ UNCHANGED <<assistant, command_queue, response_queue, w, cpc, reply, horig,
                   enqueued, produced, gaveup>>

\* Lines 139-141: assistant.speak = original_speak, render the page.
HRestore(h) ==
    /\ hpc[h] = "restore"
    /\ assistant' = [assistant EXCEPT !.speak = horig[h]]
    /\ hpc' = [hpc EXCEPT ![h] = "done"]
    /\ UNCHANGED <<command_queue, response_queue, sinks, w, cpc, reply, horig,
                   enqueued, produced, gaveup>>

home(h) ==
    \/ HRead(h)
    \/ HInstall(h)
    \/ \E hour \in Hours : HGreet(h, hour)
    \/ HRestore(h)

send_command(c) ==
    \/ \E data \in Requests : CSubmit(c, data)
    \/ CReceive(c)
    \/ CTimeout(c)

Next ==
    \/ \E c \in Callers : send_command(c)
    \/ process_commands
    \/ \E h \in Homes : home(h)

Spec == Init /\ [][Next]_vars

\* The pipeline when nobody requests the page: /send_command requests and
\* the worker only.
NextCommands ==
    \/ \E c \in Callers : send_command(c)
    \/ process_commands

SpecCommands == Init /\ [][NextCommands]_vars

\* response_queue.get(timeout=30) always ends: with a result, or with
\* queue.Empty.  Nothing is assumed about the worker, which may stay blocked
\* in a collaborator call.
FairCallers ==
    SpecCommands /\ \A c \in Callers : WF_vars(CReceive(c) \/ CTimeout(c))

\* The worker thread keeps running, and every collaborator call returns or
\* raises.
FairWorker == SpecCommands /\ WF_vars(process_commands)

-----------------------------------------------------------------------------
(* One conversation: a single client posts its next request when it has    *)
(* the response to the one before; the worker answers within the timeout.  *)

\* Bound: the number of turns of the conversation.
MaxTurns == 3

Turns == 1..MaxTurns

InitDialogue ==
    /\ assistant = [speak |-> Tts, pending_input |-> PyNone,
                    should_stop |-> FALSE,
                    listening |-> FALSE, temp_reminder |-> PyNone,
                    temp_exchange |-> PyNone]
    /\ command_queue = <<>>
    /\ response_queue = <<>>
    /\ sinks = [s \in {Tts} \cup {Cap(i) : i \in Turns} |-> <<>>]
    /\ w = [pc |-> "get", command |-> NoCommand, original_speak |-> NoSink,
            plan |-> <<>>, outcome |-> PyNone, exc |-> PyNone,
            route |-> PyNone, query |-> PyNone, pending_before |-> PyNone,
            calls |-> <<>>, matched_command |-> NotReached]
    /\ cpc = [c \in Turns |-> "idle"]
    /\ reply = [c \in Turns |-> NoReply]
    /\ hpc = [h \in Homes |-> "idle"]
    /\ horig = [h \in Homes |-> NoSink]
    /\ enqueued = <<>>
    /\ produced = <<>>
    /\ gaveup = [c \in Turns |-> {}]

\* The client's next POST /send_command, once the previous one has returned.
DSubmit(c, data) ==
    /\ \A d \in Turns : d < c => cpc[d] = "done"
    /\ CSubmit(c, data)

NextDialogue ==
    \/ \E c \in Turns : \E data \in DialogueRequests : DSubmit(c, data)
    \/ \E c \in Turns : CReceive(c)
    \/ process_commands

SpecDialogue == InitDialogue /\ [][NextDialogue]_vars

\* The same conversation when the client sends every request as a fresh
\* command (is_response absent or false).
NextFresh ==
    \/ \E c \in Turns : \E data \in FreshRequests : DSubmit(c, data)
    \/ \E c \in Turns : CReceive(c)
    \/ process_commands

SpecFresh == InitDialogue /\ [][NextFresh]_vars

-----------------------------------------------------------------------------
(* The matching loop of execute_command on its own: the worker is inside   *)
(* execute_command with a normalised query, and the loop over              *)
(* command_patterns sets matched_command.                                  *)

\* The phrase variants of all intents.
Variants ==
    UNION {{command_patterns[k].variations[j] :
               j \in 1..Len(command_patterns[k].variations)} :
           k \in 1..Len(command_patterns)}

\* The utterances resolved: the registered phrase variants, and utterances
\* that are no variant and contain none (among them the normalised form of
\* a blank utterance, and utterances that share half, or more than half, of
\* their words with a variant).  The loop is only reached by a query without
\* a stop phrase (lines 190-194).
Utterances ==
    {q \in Variants \cup
           {"what day it is", "to is it going", "tell me the weather please",
            "time what", "paris", "", "is going", "tell me", "play song",
            "stock", "how is going", "shut it down", "the date what's"} :
        ~AnyStopIn(q)}

InitResolver ==
    /\ assistant = [speak |-> Tts, pending_input |-> PyNone,
                    should_stop |-> FALSE,
                    listening |-> FALSE, temp_reminder |-> PyNone,
                    temp_exchange |-> PyNone]
    /\ command_queue = <<>>
    /\ response_queue = <<>>
    /\ sinks = [s \in Sinks |-> <<>>]
    /\ w \in {[pc |-> "match", query |-> q, matched_command |-> PyNone] :
                q \in Utterances}
    /\ cpc = [c \in Callers |-> "idle"]
    /\ reply = [c \in Callers |-> NoReply]
    /\ hpc = [h \in Homes |-> "idle"]
    /\ horig = [h \in Homes |-> NoSink]
    /\ enqueued = <<>>
    /\ produced = <<>>
    /\ gaveup = [c \in Callers |-> {}]

\* Lines 326-354: the loop runs to its end or to a break.
Resolve ==
    /\ w.pc = "match"
    /\ w' = [w EXCEPT !.pc = "matched",
                      !.matched_command = FindMatch(strip(lower(w.query)))]
    /\ UNCHANGED <<assistant, command_queue, response_queue, sinks, cpc, reply,
                   hpc, horig, enqueued, produced, gaveup>>

SpecResolver == InitResolver /\ [][Resolve]_vars

-----------------------------------------------------------------------------
(* The places that wait for voice input, each on its own: the worker's     *)
(* voice branch, and, in an engine built without web_mode (main.py line    *)
(* 778), handle_email with handle_input_with_voice and handle_weather.     *)
(* w holds the place, the number of take_command() calls of the current    *)
(* wait, how many of them in a row returned "None", and the answers got.   *)

\* The default of handle_input_with_voice's max_attempts.
max_attempts == 3

\* Bound: the number of times in a row the recogniser fails in one wait.
MaxFailures == 4

Waits == {"process_commands", "handle_email", "handle_weather"}

InitListen ==
    /\ assistant = [speak |-> Tts, pending_input |-> PyNone,
                    should_stop |-> FALSE,
                    listening |-> FALSE, temp_reminder |-> PyNone,
                    temp_exchange |-> PyNone]
    /\ command_queue = <<>>
    /\ response_queue = <<>>
    /\ sinks = [s \in Sinks |-> <<>>]
    /\ w \in {[pc |-> "listen", place |-> p, attempt |-> 0, failed |-> 0,
                got |-> <<>>] : p \in Waits}
    /\ cpc = [c \in Callers |-> "idle"]
    /\ reply = [c \in Callers |-> NoReply]
    /\ hpc = [h \in Homes |-> "idle"]
    /\ horig = [h \in Homes |-> NoSink]
    /\ enqueued = <<>>
    /\ produced = <<>>
    /\ gaveup = [c \in Callers |-> {}]

\* The texts are spoken, in order, through the function bound to sink.
Spoken(sink, texts) ==
    sinks' = [sinks EXCEPT ![sink] =
                 @ \o [k \in 1..Len(texts) |-> Utt(sink, texts[k])]]

\* The texts of the output steps of an effect.
Texts(out) ==
    LET said == SelectSeq(out, LAMBDA step : step.op # "call")
    IN  [k \in 1..Len(said) |-> said[k].text]

\* app.py lines 65-99: the voice branch of the worker, with the capture of
\* command 1 bound; first and second are what take_command() returns.
LWorkerVoice(first, second, co) ==
    /\ w.pc = "listen" /\ w.place = "process_commands"
    /\ first = "None" \/ second = "None"
    /\ LET d == VoiceCommand([assistant EXCEPT !.speak = Cap(1)], first,
                             second, co)
       IN  /\ Spoken(Cap(1), Texts(d.out))
           /\ w' = [w EXCEPT !.pc = "done",
                             !.attempt = IF first = "None" THEN 2 ELSE 1,
                             !.failed = IF first # "None" THEN 0
                                        ELSE IF second # "None" THEN 1 ELSE 2,
                             !.got = IF d.query = "None" THEN <<>>
                                     ELSE <<d.query>>]
    /\ UNCHANGED <<assistant, command_queue, response_queue, cpc, reply, hpc,
                   horig, enqueued, produced, gaveup>>

\* The questions of handle_email (lines 522-539): what is asked first, the
\* prompt of each attempt, and what is said when no answer was understood.
EmailQuestions ==
    << [ask |-> "Who would you like to send the email to?",
        prompt |-> "Please say the email address.",
        sorry |-> "I couldn't understand the email address. Please try again later."],
       [ask |-> "What should be the subject of the email?",
        prompt |-> "Please say the subject.",
        sorry |-> "I couldn't understand the subject. Please try again later."],
       [ask |-> "What message would you like to send?",
        prompt |-> "Please say your message.",
        sorry |-> "I couldn't understand the message. Please try again later."] >>

\* main.py lines 750-762, called from handle_email (lines 513-548): one
\* pass of the for loop of handle_input_with_voice for the question that is
\* open; response is what take_command() returns.  After the third answer
\* handle_email calls _process_email_final, which the class does not have,
\* and its except clause speaks.
handle_input_with_voice(response) ==
    /\ w.pc = "listen" /\ w.place = "handle_email"
    /\ LET q == EmailQuestions[Len(w.got) + 1]
           asked == (IF w.attempt = 0 THEN <<q.ask>> ELSE <<>>) \o <<q.prompt>>
       IN  IF response # "None"
           THEN IF Len(w.got) + 1 < Len(EmailQuestions)
                THEN /\ Spoken(Tts, asked)
                     /\ w' = [w EXCEPT !.attempt = 0, !.failed = 0,
                                       !.got = Append(@, response)]
                ELSE /\ Spoken(Tts, asked \o
                               <<"I had trouble processing your email request. Please try again.">>)
                     /\ w' = [w EXCEPT !.pc = "done", !.failed = 0,
                                       !.got = Append(@, response)]
           ELSE IF w.attempt < max_attempts - 1
                THEN /\ Spoken(Tts, asked \o
                               <<"I didn't catch that. Please try again.">>)
                     /\ w' = [w EXCEPT !.attempt = @ + 1, !.failed = @ + 1]
                ELSE /\ Spoken(Tts, asked \o <<q.sorry>>)
                     /\ w' = [w EXCEPT !.pc = "done", !.failed = @ + 1]
    /\ UNCHANGED <<assistant, command_queue, response_queue, cpc, reply, hpc,
                   horig, enqueued, produced, gaveup>>

\* main.py lines 466 and 473-478, without web_mode: one pass of the while
\* loop of handle_weather; city is what take_command() returns.
handle_weather_listen(city) ==
    /\ w.pc = "listen" /\ w.place = "handle_weather"
    /\ city = "None" => w.failed < MaxFailures
    /\ LET asked == IF w.attempt = 0
                    THEN <<"What city would you like to know the weather for?">>
                    ELSE <<>>
       IN  IF city = "None"
           THEN /\ Spoken(Tts, asked \o
                          <<"I didn't catch that. Please say the city name again.">>)
                /\ w' = [w EXCEPT !.attempt = @ + 1, !.failed = @ + 1]
           ELSE /\ Spoken(Tts, asked)
                /\ w' = [w EXCEPT !.pc = "fetch", !.attempt = @ + 1,
                                  !.failed = 0, !.got = <<city>>]
    /\ UNCHANGED <<assistant, command_queue, response_queue, cpc, reply, hpc,
                   horig, enqueued, produced, gaveup>>

\* Line 480: self._process_weather(city).
handle_weather_fetch(co) ==
    /\ w.pc = "fetch" /\ w.place = "handle_weather"
    /\ Spoken(Tts, Texts(_process_weather(assistant, w.got[1], co).out))
    /\ w' = [w EXCEPT !.pc = "done"]
    /\ UNCHANGED <<assistant, command_queue, response_queue, cpc, reply, hpc,
                   horig, enqueued, produced, gaveup>>

NextListen ==
    \/ \E first \in Heard, second \in Heard, co \in CollabOutcomes :
          LWorkerVoice(first, second, co)
    \/ \E response \in Heard : handle_input_with_voice(response)
    \/ \E city \in Heard : handle_weather_listen(city)
    \/ \E co \in CollabOutcomes : handle_weather_fetch(co)

SpecListen == InitListen /\ [][NextListen]_vars

-----------------------------------------------------------------------------
(* The claims.                                                             *)

Computed(c) == \E i \in 1..Len(produced) : produced[i].cmd = c
InQueue(c) == \E i \in 1..Len(command_queue) : command_queue[i].id = c
InFlight(c) == w.pc # "get" /\ w.command.id = c

\* C1: the result a caller receives is the result computed for that caller's
\* own command, never the result of a command another caller submitted.
C1_OwnResult ==
    \A c \in Callers :
        (cpc[c] = "done" /\ reply[c].cmd # 0) => reply[c].cmd = c

\* C2: the result of a command whose caller timed out is discarded: no caller
\* that posts its request after that timeout ever receives it.
C2_LateResultDiscarded ==
    \A d \in Callers : cpc[d] = "done" => reply[d].cmd \notin gaveup[d]

\* C3: a waiting caller always returns; when nothing arrived in time it
\* returns status 'error', success=false and the timeout message, and the
\* timeout leaves the worker and the queued commands as they are, so the
\* command of a caller that gave up is still queued, in processing or computed.
C3_TimeoutReturns ==
    /\ [][\A c \in Callers :
            (cpc[c] = "wait" /\ cpc'[c] = "done" /\ response_queue = <<>>)
            => /\ reply'[c].status = "error"
               /\ reply'[c].success = FALSE
               /\ reply'[c].message = "Command processing timeout. Please try again."
               /\ w' = w
               /\ command_queue' = command_queue]_vars
    /\ [](\A c \in Callers :
            (cpc[c] = "done"
             /\ reply[c].message = "Command processing timeout. Please try again.")
            => (InQueue(c) \/ InFlight(c) \/ Computed(c)))
    /\ \A c \in Callers : (cpc[c] = "wait") ~> (cpc[c] = "done")

\* C3 witness: a caller has given up and the worker has nevertheless computed
\* the result of its command.
C3_Witness ==
    \E c \in Callers :
        /\ cpc[c] = "done" /\ reply[c].status = "error"
        /\ reply[c].message = "Command processing timeout. Please try again."
        /\ Computed(c)

\* A raise has happened: the worker is in its except clause, or has put an
\* error result.
Raised ==
    \/ w.pc = "emit" /\ w.exc # PyNone
    \/ \E i \in 1..Len(produced) : ~produced[i].success

\* C4: a command whose processing raises gets an error result
\* (success=false), and the worker keeps running: every command still queued
\* once a raise has happened is eventually given a result.
C4_WorkerSurvives ==
    /\ [][(w.pc = "emit" /\ w'.pc # "emit" /\ w.exc # PyNone)
            => /\ Len(produced') = Len(produced) + 1
               /\ produced'[Len(produced')].cmd = w.command.id
               /\ produced'[Len(produced')].success = FALSE
               /\ w'.pc = "get"]_vars
    /\ \A c \in Callers : (Raised /\ InQueue(c)) ~> Computed(c)

\* C4 witness: the first command raised, and a later command has been given
\* its result.
C4_Witness ==
    /\ Len(produced) >= 2
    /\ ~produced[1].success
    /\ produced[2].cmd # produced[1].cmd

\* C5: the worker takes the commands in the order they were enqueued and
\* puts the result of one before it takes the next: the results made so far
\* are those of the oldest commands, in order, the command in processing is
\* the next one, and the rest are still queued, in order.
C5_Fifo ==
    LET n == Len(produced)
        k == IF w.pc = "get" THEN n ELSE n + 1
    IN  /\ [i \in 1..n |-> produced[i].cmd] = SubSeq(enqueued, 1, n)
        /\ w.pc # "get" => (n < Len(enqueued) /\ w.command.id = enqueued[n + 1])
        /\ [i \in 1..Len(command_queue) |-> command_queue[i].id]
             = SubSeq(enqueued, k + 1, Len(enqueued))

\* C5 witness: two commands were submitted and both have their results, the
\* first one first.
C5_Witness ==
    /\ Len(produced) >= 2
    /\ produced[1].cmd = 1 /\ produced[2].cmd = 2

\* C6: speak, the pending slot and the collected values change only in steps
\* of the worker thread.
C6_WorkerOwnsEngine ==
    [][(assistant'.speak # assistant.speak
        \/ assistant'.pending_input # assistant.pending_input
        \/ assistant'.temp_reminder # assistant.temp_reminder
        \/ assistant'.temp_exchange # assistant.temp_exchange) => w' # w]_vars

\* C7: the all_responses of a result holds only utterances emitted for its
\* own command, and no other sink receives an utterance of that command.
C7_CaptureIsolation ==
    \A i \in 1..Len(produced) :
        LET r == produced[i]
            own == Cap(r.cmd)
            all == AllResponses(r)
        IN  /\ \A k \in 1..Len(all) : all[k].by = own
            /\ \A s \in Sinks \ {own} :
                   \A k \in 1..Len(sinks[s]) : sinks[s][k].by # own

\* C8: when the worker has finished a command, on every exit path, speak is
\* the one that was installed before that command began.
C8_SpeakRestored ==
    [][(w.pc = "emit" /\ w'.pc = "get")
        => assistant'.speak = w.original_speak]_vars

\* The stop phrases, as the claim lists them.
C9_StopPhrases ==
    {"stop", "exit", "quit", "bye", "goodbye", "shut down", "shutdown",
     "turn off"}

\* The text the worker is handling (typed, or recognised) has a stop phrase.
C9_StopAsked ==
    /\ w.pc = "emit"
    /\ w.query \notin {PyNone, "None"}
    /\ \E p \in C9_StopPhrases : Contains(p, lower(w.query))

\* C9: a text command or recognised voice command with a stop phrase is
\* handled as Stop (farewell emitted, should_stop true) whether or not a slot
\* is pending or is_response is set; it never goes to the pending slot's
\* handler, which leaves the pending slot as it was.
C9_StopPreempts ==
    C9_StopAsked
    => /\ w.route = "stop" /\ w.outcome = "stop"
       /\ assistant.should_stop
       /\ assistant.pending_input = w.pending_before
       /\ \/ \E k \in 1..Len(w.plan) :
                w.plan[k] = Say("Goodbye! Have a great day!")
          \/ \E s \in Sinks : \E k \in 1..Len(sinks[s]) :
                sinks[s][k] = Utt(Cap(w.command.id), "Goodbye! Have a great day!")

\* C9 witness: a flagged continuation with a stop phrase arrives while a slot
\* is pending, and has been handled.
C9_Witness ==
    /\ C9_StopAsked
    /\ w.command.type = "text" /\ w.command.is_response
    /\ w.pending_before # PyNone
    /\ w.plan = <<>>

\* C10: a command submitted once should_stop is true is refused: it is not
\* resolved, not dispatched, and does not change the pending slot.
C10_StoppedRefuses ==
    (w.pc = "emit" /\ w.command.after_stop)
    => /\ w.route \notin {"execute", "pending"}
       /\ assistant.pending_input = w.pending_before

\* C11: should_stop starts false and, once true, stays true through every
\* step of the worker, of the /send_command requests and of the GET /
\* requests.
C11_StopMonotonic ==
    /\ ~assistant.should_stop
    /\ [][assistant.should_stop => assistant'.should_stop]_vars

\* C11 witness: a Stop was handled, a later command was processed by the
\* resolver, a slot handler or the except clause, and should_stop is true.
C11_Witness ==
    /\ assistant.should_stop
    /\ \E i, j \in 1..Len(produced) :
          /\ j < i
          /\ produced[j].route = "stop"
          /\ produced[i].route \in {"execute", "pending", "raise"}

\* C12: while a slot is pending, a command flagged as a continuation whose
\* text has no stop phrase, typed or spoken, goes to the slot-filling step of
\* the pending slot and not to the intent resolver.
C12_ContinuationFillsSlot ==
    (/\ w.pc = "emit"
     /\ w.pending_before # PyNone
     /\ w.command.is_response
     /\ w.query \notin {PyNone, "None"} => ~HasStopPhrase(lower(w.query)))
    => w.route = "pending"

\* The client has the response to turn c, the command the worker handled
\* last, and that command was typed.
C13_Answered(c) ==
    /\ cpc[c] = "done" /\ w.pc = "get" /\ w.command.id = c
    /\ w.command.type = "text" /\ w.command.content # PyNone

\* Turn c was "weather", asked while no slot was pending.
C13_Asked(c) ==
    /\ C13_Answered(c)
    /\ w.pending_before = PyNone
    /\ w.command.content = "weather"

\* Turn c was a flagged continuation that found weather_city pending.
C13_Continued(c) ==
    /\ C13_Answered(c)
    /\ w.pending_before = "weather_city"
    /\ w.command.is_response

Settled == w.pc = "get" /\ produced # <<>>

\* The result of the command handled last.
Last == produced[Len(produced)]

\* The turn, before the last one, that answered the slot key most recently.
Answering(key) ==
    CHOOSE j \in 1..(Len(produced) - 1) :
        /\ produced[j].route = "pending" /\ produced[j].pending_before = key
        /\ \A k \in (j + 1)..(Len(produced) - 1) :
               ~(produced[k].route = "pending" /\ produced[k].pending_before = key)

\* The first two turns of the exchange-rate flow: "exchange rate" leaves
\* exchange_base pending; its answer leaves exchange_target pending, with
\* requires_input true and the base kept.
C14_BaseHeld ==
    /\ (Last.route = "execute" /\ Last.query = "exchange rate")
       => /\ assistant.pending_input = "exchange_base"
          /\ Last.requires_input /\ Last.input_type = "exchange_base"
    /\ (Last.route = "pending" /\ Last.pending_before = "exchange_base")
       => /\ assistant.pending_input = "exchange_target"
          /\ Last.requires_input /\ Last.input_type = "exchange_target"
          /\ assistant.temp_exchange = Last.query

\* C14, as stated: ... and answering the target calls get_exchange_rate with
\* exactly the base given in the intermediate turn and the target just
\* given, and leaves no slot pending.
C14_ExactValues ==
    Settled
    => /\ C14_BaseHeld
       /\ (Last.route = "pending" /\ Last.pending_before = "exchange_target")
          => /\ Last.calls =
                  <<Call("get_exchange_rate",
                         <<produced[Answering("exchange_base")].query, Last.query>>)>>
             /\ assistant.pending_input = PyNone

\* C14, amended: ... answering the target calls get_exchange_rate once, with
\* the upper-cased base given in the intermediate turn and the upper-cased
\* target just given, and leaves no slot pending.
C14_ExchangeFlow ==
    Settled
    => /\ C14_BaseHeld
       /\ (Last.route = "pending" /\ Last.pending_before = "exchange_target")
          => /\ Last.calls =
                  <<Call("get_exchange_rate",
                         <<upper(produced[Answering("exchange_base")].query),
                           upper(Last.query)>>)>>
             /\ assistant.pending_input = PyNone

\* C14 witness: "exchange rate", "usd", "eur" ended with the rate of USD in
\* EUR.
C14_Witness ==
    /\ Settled
    /\ Last.pending_before = "exchange_target"
    /\ Last.calls = <<Call("get_exchange_rate", <<"USD", "EUR">>)>>
    /\ Last.message = "Exchange Rate: 1 USD = <rate> EUR\nLast Updated: <timestamp> UTC"
    /\ assistant.pending_input = PyNone

\* C15: in the email flow the answer to email_recipient leaves
\* email_subject pending, the answer to that leaves email_message pending,
\* and the answer to that invokes send_email and leaves no slot pending.
C15_EmailFlow ==
    Settled
    => /\ (Last.route = "pending" /\ Last.pending_before = "email_recipient")
          => assistant.pending_input = "email_subject"
       /\ (Last.route = "pending" /\ Last.pending_before = "email_subject")
          => assistant.pending_input = "email_message"
       /\ (Last.route = "pending" /\ Last.pending_before = "email_message")
          => /\ assistant.pending_input = PyNone
             /\ \E k \in 1..Len(Last.calls) : Last.calls[k].fn = "send_email"

\* The invocation call was made for a command that found the slot key
\* pending and was taken by the slot-filling branch.
C16_AtFinalSlot(call, route, pending_before) ==
    /\ call.fn = "set_reminder"
       => (route = "pending" /\ pending_before = "reminder_time")
    /\ call.fn = "get_exchange_rate"
       => (route = "pending" /\ pending_before = "exchange_target")

\* C16: set_reminder and get_exchange_rate are invoked only while the
\* continuation that answers reminder_time, respectively exchange_target, is
\* processed: never when the flow is opened or its first slot is answered.
C16_FinalSlotOnly ==
    /\ \A i \in 1..Len(produced) : \A k \in 1..Len(produced[i].calls) :
           C16_AtFinalSlot(produced[i].calls[k], produced[i].route,
                           produced[i].pending_before)
    /\ \A k \in 1..Len(w.calls) :
           C16_AtFinalSlot(w.calls[k], w.route, w.pending_before)

\* C16 witness: "set reminder", then the task, then the time: set_reminder
\* was invoked in the third turn, with that task and that time.
C16_Witness ==
    /\ Len(produced) = 3
    /\ produced[1].query = "set reminder" /\ produced[1].calls = <<>>
    /\ produced[2].pending_before = "reminder_task" /\ produced[2].calls = <<>>
    /\ produced[3].pending_before = "reminder_time"
    /\ produced[3].calls =
          <<Call("set_reminder", <<produced[2].query, produced[3].query>>)>>

\* The command handled last ended in a failure: the worker's except clause
\* caught an exception, or execute_command caught one of a handler.
C17_Failed ==
    \/ ~Last.success
    \/ Contains("Sorry, there was an error: ", Last.message)

\* C17: after a command or continuation that ended in a failure no slot is
\* pending, also when one was pending before that command arrived.
C17_FailureResetsSlot ==
    (Settled /\ C17_Failed) => assistant.pending_input = PyNone

\* C18: when no slot is pending, no collected value (exchange base, reminder
\* task) is still stored in the engine.
C18_CollectedCleared ==
    assistant.pending_input = PyNone
    => (assistant.temp_exchange = PyNone /\ assistant.temp_reminder = PyNone)

\* The intents with a phrase variant equal to q, and those with a variant
\* contained in q.
ExactIntents(q) ==
    {command_patterns[k].cmd : k \in
        {i \in 1..Len(command_patterns) :
            \E j \in 1..Len(command_patterns[i].variations) :
                command_patterns[i].variations[j] = q}}

ContainingIntents(q) ==
    {command_patterns[k].cmd : k \in
        {i \in 1..Len(command_patterns) :
            \E j \in 1..Len(command_patterns[i].variations) :
                Contains(command_patterns[i].variations[j], q)}}

\* C19: an utterance equal to a phrase variant of an intent resolves to that
\* intent, also when a variant of another intent is a substring of it; an
\* utterance that only contains variants resolves to an intent whose variant
\* it contains, never to a fuzzy match with another intent.
C19_TierPrecedence ==
    w.pc = "matched"
    => /\ ExactIntents(w.query) # {}
          => w.matched_command \in ExactIntents(w.query)
       /\ ContainingIntents(w.query) # {}
          => w.matched_command \in ContainingIntents(w.query)

\* The word-overlap similarity of variant j of intent k with q, as the pair
\* <<numerator, denominator>>.
Similarity(q, k, j) ==
    LET variation_words == split(command_patterns[k].variations[j])
        query_words == split(q)
    IN  <<Cardinality(variation_words \cap query_words),
          Max(Cardinality(variation_words), Cardinality(query_words))>>

\* All (intent, variant) pairs, by position.
Pairs ==
    UNION {{<<k, j>> : j \in 1..Len(command_patterns[k].variations)} :
           k \in 1..Len(command_patterns)}

\* x/y > u/v
Greater(x, y) == x[1] * y[2] > y[1] * x[2]

\* The intents of the pairs whose similarity with q is the maximum over all
\* pairs, when that maximum exceeds 1/2; the first registered of them wins.
BestIntent(q) ==
    LET best == {p \in Pairs :
                   /\ Greater(Similarity(q, p[1], p[2]), <<1, 2>>)
                   /\ \A r \in Pairs :
                          ~Greater(Similarity(q, r[1], r[2]),
                                   Similarity(q, p[1], p[2]))}
    IN  IF best = {} THEN PyNone
        ELSE command_patterns[CHOOSE k \in {p[1] : p \in best} :
                                 \A p \in best : k <= p[1]].cmd

\* C20: when the utterance is no variant and contains none, the resolver
\* selects the intent of the pair with the maximum similarity over all
\* (intent, variant) pairs if that maximum exceeds 0.5 (the first registered
\* intent on a tie), and nothing otherwise.
C20_MaxSimilarity ==
    (w.pc = "matched" /\ ExactIntents(w.query) = {}
     /\ ContainingIntents(w.query) = {})
    => w.matched_command = BestIntent(w.query)

\* The similarity of q with some variant is above 1/2; it is exactly 1/2
\* with some variant and above 1/2 with none.
C21_AboveHalf(q) ==
    \E p \in Pairs : Greater(Similarity(q, p[1], p[2]), <<1, 2>>)

C21_ExactlyHalf(q) ==
    /\ ~C21_AboveHalf(q)
    /\ \E p \in Pairs : LET x == Similarity(q, p[1], p[2]) IN 2 * x[1] = x[2]

\* C21: an utterance that is no variant and contains none resolves to no
\* intent when its best similarity with a variant is exactly 0.5, and to an
\* intent when its similarity with some variant is greater than 0.5.
C21_StrictThreshold ==
    (w.pc = "matched" /\ ExactIntents(w.query) = {}
     /\ ContainingIntents(w.query) = {})
    => /\ C21_ExactlyHalf(w.query) => w.matched_command = PyNone
       /\ C21_AboveHalf(w.query)
          => w.matched_command \in
                {command_patterns[k].cmd : k \in 1..Len(command_patterns)}

\* C21 witness: "is going" shares two of the four words of "how is it
\* going" and nothing more with any variant, and was resolved.
C21_Witness ==
    /\ w.pc = "matched" /\ w.query = "is going"
    /\ C21_ExactlyHalf(w.query)
    /\ ExactIntents(w.query) = {} /\ ContainingIntents(w.query) = {}
    /\ w.matched_command = PyNone

\* The intents registered in command_patterns.
Intents == {command_patterns[k].cmd : k \in 1..Len(command_patterns)}

\* The texts the never-flagging client sends or speaks, as normalised by
\* execute_command (line 197).
FreshQueries ==
    {strip(lower(t)) : t \in ({r.content : r \in FreshRequests} \cup Heard)
                                \ {PyNone}}

\* Computed once per query: no variant equals it, none is contained in it,
\* none has a similarity with it above 1/2.
UnmatchedTable ==
    [q \in FreshQueries |->
        /\ ExactIntents(q) = {} /\ ContainingIntents(q) = {}
        /\ ~C21_AboveHalf(q)]

\* The results of the commands that went through execute_command.
Executed == {i \in 1..Len(produced) : produced[i].route = "execute"}

\* C22: every utterance handed to execute_command, the empty and the blank
\* one included, ends in exactly one outcome without an exception (an intent,
\* or none); an utterance no tier matches gets no intent; and the same
\* utterance gets the same outcome whenever it is handed in again, whatever
\* slot is pending and whatever was handled before.
C22_TotalDeterministic ==
    /\ \A i \in Executed :
          /\ produced[i].success
          /\ produced[i].matched_command \in Intents \cup {PyNone, NotReached}
          /\ UnmatchedTable[strip(lower(produced[i].query))]
             => produced[i].matched_command \notin Intents
    /\ \A i \in Executed : \A j \in Executed :
          produced[i].query = produced[j].query
          => produced[i].matched_command = produced[j].matched_command

\* C22 witness: "weather" was resolved with no slot pending, then a blank
\* utterance with weather_city pending, then "weather" again: the blank one
\* got no intent, both "weather" got the same.
C22_Witness ==
    /\ Len(produced) = 3 /\ Executed = {1, 2, 3}
    /\ produced[1].query = "weather" /\ produced[1].pending_before = PyNone
    /\ produced[2].query = "  " /\ produced[2].matched_command = PyNone
    /\ produced[3].query = "weather"
    /\ produced[3].pending_before = "weather_city"
    /\ produced[3].matched_command = "weather"

\* The command handled last had a stop phrase in its text (typed, or as
\* recognised).
C23_StopSaid ==
    /\ Settled
    /\ Last.query \notin {PyNone, "None"}
    /\ AnyStopIn(lower(Last.query))

\* C23: a command whose text contains a stop phrase is handled as Stop, also
\* when the text equals or contains a phrase variant of another intent: the
\* matching loop is not reached, no handler and no collaborator is invoked,
\* the farewell is the result and should_stop is set.
C23_StopFirst ==
    C23_StopSaid
    => /\ Last.route = "stop"
       /\ Last.matched_command = NotReached
       /\ Last.calls = <<>>
       /\ Last.message = "Goodbye! Have a great day!"
       /\ Last.should_stop /\ assistant.should_stop
       /\ ~Last.requires_input
       /\ assistant.pending_input = Last.pending_before

\* C23 witness: "please stop the weather report", which contains the
\* variant "weather report" of the intent weather, was handled.
C23_Witness ==
    /\ C23_StopSaid
    /\ Last.query = "please stop the weather report"
    /\ "weather" \in ContainingIntents(Last.query)
    /\ Last.route = "stop"

\* C24: whatever intent the matching loop selects for a command is a key of
\* command_handlers: the lookup at dispatch never misses.
C24_HandlerRegistered ==
    /\ w.matched_command \in Intents => w.matched_command \in command_handlers
    /\ \A i \in 1..Len(produced) :
           produced[i].matched_command \in Intents
           => produced[i].matched_command \in command_handlers

\* The utterances the result r holds: the capture's list, or the literal
\* list of a Stop or error result.
Responses(r) == [k \in 1..Len(AllResponses(r)) |-> AllResponses(r)[k].text]

Rephrase == "I'm not sure what you want me to do. Could you please rephrase that?"

\* The command handled last went through the matching loop and no intent
\* matched.
C29_Unknown ==
    Settled /\ Last.route = "execute" /\ Last.matched_command = PyNone

\* The result of a command that resolved to no intent: success, one request
\* to rephrase as its message, the slot that was pending still reported.
C29_Answer ==
    C29_Unknown
    => /\ Last.success
       /\ Last.message = Rephrase
       /\ Cardinality({k \in 1..Len(Responses(Last)) :
                          Responses(Last)[k] = Rephrase}) = 1
       /\ Last.input_type = Last.pending_before
       /\ Last.requires_input = (Last.pending_before # PyNone)
       /\ assistant.pending_input = Last.pending_before

\* The engine handles a command that resolves to no intent.
C29_Handling ==
    /\ w.pc = "proc" /\ w'.pc = "emit"
    /\ w'.route = "execute" /\ w'.matched_command = PyNone

\* C29: a command that resolves to no intent is answered by one request to
\* rephrase, the message of a result with success true; handling it leaves
\* the pending slot, the collected values and should_stop as they were.
C29_UnknownRephrase ==
    /\ []C29_Answer
    /\ [][C29_Handling
          => /\ assistant'.pending_input = assistant.pending_input
             /\ assistant'.temp_exchange = assistant.temp_exchange
             /\ assistant'.temp_reminder = assistant.temp_reminder
             /\ assistant'.should_stop = assistant.should_stop]_vars

\* C29 witness: "Paris", not flagged, while weather_city is pending.
C29_Witness ==
    /\ C29_Unknown
    /\ Last.query = "Paris" /\ Last.pending_before = "weather_city"
    /\ assistant.pending_input = "weather_city"
    /\ Responses(Last) = <<Rephrase>>

\* The slot each slot-opening handler leaves pending in web mode.
C30_Opens ==
    [cmd \in {"youtube", "open google", "wikipedia", "weather", "send email",
              "set reminder", "stock price", "exchange rate",
              "generate password", "crypto price", "ask gpt", "ask to ai"} |->
        CASE cmd = "youtube" -> "youtube_query"
          [] cmd = "open google" -> "google_query"
          [] cmd = "wikipedia" -> "wiki_query"
          [] cmd = "weather" -> "weather_city"
          [] cmd = "send email" -> "email_recipient"
          [] cmd = "set reminder" -> "reminder_task"
          [] cmd = "stock price" -> "stock_symbol"
          [] cmd = "exchange rate" -> "exchange_base"
          [] cmd = "generate password" -> "password_length"
          [] cmd = "crypto price" -> "crypto_symbol"
          [] cmd = "ask gpt" -> "gpt_query"
          [] cmd = "ask to ai" -> "free_gpt_query"]

\* The command handled last was a text command without the is_response
\* flag that found a slot pending.
C30_UnflaggedWhilePending ==
    /\ Settled
    /\ w.command.type = "text" /\ ~w.command.is_response
    /\ w.command.content # PyNone
    /\ Last.pending_before # PyNone

\* C30: a text command that is not flagged is_response and arrives while a
\* slot is pending is not given to the slot's handler: it is handled as a
\* fresh command (resolved by execute_command, or stopped), and afterwards
\* the slot pending is the one the matched handler opens if it opens one,
\* and the one that was pending otherwise.
C30_FreshWhilePending ==
    C30_UnflaggedWhilePending
    => /\ Last.route \in {"execute", "stop"}
       /\ Last.route = "execute"
          => Last.matched_command \in
                {NotReached, MatchCommand(strip(lower(Last.query)))}
       /\ assistant.pending_input =
             IF Last.matched_command \in DOMAIN C30_Opens
             THEN C30_Opens[Last.matched_command]
             ELSE Last.pending_before

\* C30 witness: with weather_city pending, "how are you" was answered and
\* weather_city is still pending; then "exchange rate" replaced it by
\* exchange_base.
C30_Witness ==
    /\ C30_UnflaggedWhilePending
    /\ Len(produced) = 3
    /\ produced[2].query = "how are you"
    /\ produced[2].pending_before = "weather_city"
    /\ produced[2].input_type = "weather_city"
    /\ produced[2].message = "I am absolutely fine, sir. What about you?"
    /\ Last.query = "exchange rate" /\ Last.pending_before = "weather_city"
    /\ assistant.pending_input = "exchange_base"

\* The result before the last one.
Prev == produced[Len(produced) - 1]

\* The handlers that open no slot, and those of them that speak what a
\* collaborator returned.
C26_ZeroSlot == command_handlers \ DOMAIN C30_Opens

C26_Collaborating ==
    {"open discord", "open vs code", "ip address", "give me news",
     "battery status", "current time", "date and time"}

\* The last two commands were the same text, not flagged, matched to the
\* same handler that opens no slot.
C26_Twice ==
    /\ Settled /\ Len(produced) >= 2
    /\ Last.route = "execute" /\ Prev.route = "execute"
    /\ w.command.type = "text" /\ ~w.command.is_response
    /\ Last.query = Prev.query
    /\ Last.matched_command \in C26_ZeroSlot
    /\ Prev.matched_command \in C26_ZeroSlot

\* C26: when the same command without a slot is submitted twice in a row,
\* the two results agree in everything but what the collaborator returned
\* (the same fields, and the same utterances when the handler uses no
\* collaborator; the first result's utterances are not touched by the
\* second run), and the pending slot and should_stop after the second are
\* those after the first.
C26_Idempotent ==
    C26_Twice
    => /\ Last.success = Prev.success
       /\ Last.requires_input = Prev.requires_input
       /\ Last.input_type = Prev.input_type
       /\ Last.should_stop = Prev.should_stop
       /\ assistant.pending_input = Prev.input_type
       /\ assistant.should_stop = Prev.should_stop
       /\ Last.matched_command \notin C26_Collaborating
          => /\ Last.message = Prev.message
             /\ Responses(Last) = Responses(Prev)
       /\ Len(Responses(Prev)) = 1 /\ Responses(Prev)[1] = Prev.message

\* C26 witness: "weather" left weather_city pending, then "how are you"
\* was answered twice.
C26_Witness ==
    /\ C26_Twice
    /\ Len(produced) = 3
    /\ Last.query = "how are you"
    /\ Prev.pending_before = "weather_city"
    /\ Last.message = "I am absolutely fine, sir. What about you?"
    /\ Last.requires_input /\ Last.input_type = "weather_city"

\* C25: no step of a GET / request (reading and replacing assistant.speak,
\* greet_me, restoring speak) changes the pending slot or a collected value.
C25_GreetingKeepsSlot ==
    [][(\E h \in Homes : hpc'[h] # hpc[h])
       => /\ assistant'.pending_input = assistant.pending_input
          /\ assistant'.temp_exchange = assistant.temp_exchange
          /\ assistant'.temp_reminder = assistant.temp_reminder]_vars

\* C25 witness: "weather" had left weather_city pending before the GET /
\* request read assistant.speak (it read the capture of the second command);
\* the page has been rendered and weather_city is still pending.
C25_Witness ==
    /\ \E h \in Homes : hpc[h] = "done" /\ horig[h] = Cap(2)
    /\ produced # <<>> /\ produced[1].input_type = "weather_city"
    /\ assistant.pending_input = "weather_city"

\* The number of results the worker has put on response_queue: those still
\* there and those a request has taken.
C27_ResultsPut ==
    Len(response_queue)
    + Cardinality({c \in DOMAIN cpc :
                      cpc[c] = "done" /\ reply[c].status = "success"})

\* The number of commands taken from command_queue, and of those the loop
\* body has finished with.
C27_Dequeued == Len(enqueued) - Len(command_queue)

C27_Processed == C27_Dequeued - (IF w.pc = "get" THEN 0 ELSE 1)

\* How often command c occurs in the queue, in the worker's hands and among
\* the results made.
C27_Places(c) ==
    Cardinality({i \in 1..Len(command_queue) : command_queue[i].id = c})
    + (IF InFlight(c) THEN 1 ELSE 0)
    + Cardinality({i \in 1..Len(produced) : produced[i].cmd = c})

\* C27: the results put on response_queue are exactly as many as the
\* commands the loop body has finished with, whichever way it ended (Stop,
\* normal end, caught exception); every enqueued command is in exactly one
\* place (still queued, being processed, or answered by one result); a get
\* takes one command off the queue and the end of the loop body puts one
\* result, that of the command taken.
C27_OneResultPerCommand ==
    /\ [](/\ C27_ResultsPut = C27_Processed
          /\ Len(produced) = C27_Processed
          /\ \A k \in 1..Len(enqueued) : C27_Places(enqueued[k]) = 1)
    /\ [][(w.pc = "get" /\ w'.pc # "get")
            => /\ Len(command_queue') = Len(command_queue) - 1
               /\ w'.command = Head(command_queue)
               /\ response_queue' = response_queue]_vars
    /\ [][(w.pc # "get" /\ w'.pc = "get")
            => /\ Len(response_queue') = Len(response_queue) + 1
               /\ response_queue'[Len(response_queue')].cmd = w.command.id
               /\ command_queue' = command_queue]_vars

\* C27 witness: one command ended in the Stop branch and one in the except
\* clause; both have their result, one taken by a request and one still on
\* response_queue.
C27_Witness ==
    /\ Len(produced) = 2 /\ w.pc = "get"
    /\ {produced[1].route, produced[2].route} = {"stop", "raise"}
    /\ Len(response_queue) = 1
    /\ C27_ResultsPut = 2

\* C28: every wait for voice input gives up after a fixed number of failed
\* recognitions: the worker's voice branch after two, handle_input_with_voice
\* after max_attempts, and the weather handler of the engine without web_mode
\* after some number of its own, before the recogniser stops failing.
C28_BoundedRetries ==
    /\ w.place = "process_commands" => w.failed <= 2
    /\ w.place = "handle_email" => w.failed <= max_attempts
    /\ w.place = "handle_weather" => w.failed < MaxFailures

-----------------------------------------------------------------------------
(* What a result reports about the dialogue.                               *)

\* The worker puts a result in this step.
ResultCreated == Len(produced') = Len(produced) + 1

\* The result put in this step.
Created == produced'[Len(produced')]

\* C31: every result the worker produces reports the engine's dialogue state
\* as it is when the result is created: requires_input is true exactly when
\* a slot is pending in the engine at that moment, and input_type is that
\* slot's key (None when there is none).
C31_ReportsDialogueState ==
    [][ResultCreated
       => /\ Created.requires_input = (assistant'.pending_input # PyNone)
          /\ Created.input_type = assistant'.pending_input]_vars

\* self.last_response as the web-mode handlers and first steps assign it
\* together with pending_input: the prompt for the slot key.
last_response ==
    [key \in {"youtube_query", "google_query", "wiki_query", "weather_city",
              "email_recipient", "reminder_task", "reminder_time",
              "stock_symbol", "exchange_base", "exchange_target",
              "password_length", "crypto_symbol", "gpt_query",
              "free_gpt_query"} |->
        CASE key = "youtube_query" -> "What do you want to play on YouTube?"
          [] key = "google_query" -> "What do you want to search on Google?"
          [] key = "wiki_query" -> "What do you want to search on Wikipedia?"
          [] key = "weather_city" -> "Please enter your city name:"
          [] key = "email_recipient" -> "Please enter the recipient's email:"
          [] key = "reminder_task" -> "What task should I remind you about?"
          [] key = "reminder_time" -> "At what time? (e.g., 10:30 AM)"
          [] key = "stock_symbol" ->
               "Which stock price would you like to check? (Enter symbol)"
          [] key = "exchange_base" -> "Enter base currency (e.g., USD):"
          [] key = "exchange_target" -> "Enter target currency (e.g., EUR):"
          [] key = "password_length" ->
               "What length should the password be? (default is 12)"
          [] key = "crypto_symbol" ->
               "Which cryptocurrency price would you like to check? (e.g., btc, eth)"
          [] key = "gpt_query" -> "What would you like to ask GPT?"
          [] key = "free_gpt_query" -> "What would you like to ask?"]

\* The texts that solicit the slot key: the one kept in last_response and,
\* for the city, the question handle_weather asks.
C32_Prompts(key) ==
    {last_response[key]} \cup
    (IF key = "weather_city"
     THEN {"What city would you like to know the weather for?"} ELSE {})

\* The command handled last opened a slot request (a slot-opening handler
\* ran) or advanced one (the first step of a two-step flow ran).
C32_OpenedOrAdvanced ==
    /\ Settled /\ Last.requires_input
    /\ \/ Last.route = "execute" /\ Last.matched_command \in DOMAIN C30_Opens
       \/ Last.route = "pending"
          /\ Last.pending_before \in {"reminder_task", "exchange_base"}

\* C32: whenever processing a command opens or advances a slot request, the
\* prompt soliciting that slot is emitted as an utterance: the result's
\* all_responses contains the prompt and the result's message is that
\* prompt, for every slot-taking intent.
C32_PromptEmitted ==
    C32_OpenedOrAdvanced
    => /\ Last.message \in C32_Prompts(Last.input_type)
       /\ \E k \in 1..Len(Responses(Last)) : Responses(Last)[k] = Last.message

-----------------------------------------------------------------------------
(* What a continuation does to the pending slot.                           *)

\* The key a first step leaves pending: the next key of the same flow.
C33_NextKey ==
    [key \in {"reminder_task", "exchange_base"} |->
        IF key = "reminder_task" THEN "reminder_time" ELSE "exchange_target"]

\* The slot that may be pending after the slot key was answered.
C33_After(key) ==
    {PyNone} \cup (IF key \in DOMAIN C33_NextKey THEN {C33_NextKey[key]} ELSE {})

\* The command handled last was a text command flagged is_response that
\* found a slot pending.
C33_FlaggedWhilePending ==
    /\ Settled
    /\ w.command.type = "text" /\ w.command.is_response
    /\ Last.pending_before # PyNone

\* C33, as stated: a flagged text continuation always consumes the pending
\* slot: afterwards the pending slot is None or the next key of the same
\* flow, never the key that was just answered.
C33_AlwaysConsumes ==
    C33_FlaggedWhilePending
    => /\ assistant.pending_input \in C33_After(Last.pending_before)
       /\ assistant.pending_input # Last.pending_before

\* C33, amended: a flagged text continuation whose content is present and
\* holds no stop phrase is given to process_pending_input, and afterwards
\* the pending slot is None or the next key of the same flow, never the key
\* that was just answered, whether the slot handler returned or raised.
C33_ConsumesSlot ==
    (/\ C33_FlaggedWhilePending
     /\ w.command.content # PyNone
     /\ ~AnyStopIn(LowerOf(w.command.content)))
    => /\ Last.route = "pending"
       /\ assistant.pending_input \in C33_After(Last.pending_before)
       /\ assistant.pending_input # Last.pending_before
       /\ Last.input_type \in {PyNone, assistant.pending_input}

\* C33 witness: "exchange rate", "usd", "eur": the answer to exchange_base
\* left exchange_target pending, and the answer to exchange_target, on which
\* get_exchange_rate raised, left no slot pending.
C33_Witness ==
    /\ C33_FlaggedWhilePending
    /\ Len(produced) = 3
    /\ produced[2].pending_before = "exchange_base"
    /\ produced[2].input_type = "exchange_target"
    /\ Last.pending_before = "exchange_target" /\ Last.query = "eur"
    /\ ~Last.success
    /\ Last.message =
          "Error processing command: Network error while fetching exchange rate"
    /\ assistant.pending_input = PyNone

\* What the worker reports when a final step finds no collected value.
C34_Missing ==
    {"Error processing command: 'VoiceAssistant' object has no attribute '_temp_exchange'",
     "Error processing command: 'VoiceAssistant' object has no attribute '_temp_reminder'"}

\* C34: in every reachable state a pending second-step slot has its
\* first-step value stored (exchange_target pending implies a base currency
\* is stored, reminder_time pending implies a task is stored), and no answer
\* to a second-step slot failed for a missing collected value.
C34_SecondStepHasValue ==
    /\ assistant.pending_input = "exchange_target"
       => assistant.temp_exchange # PyNone
    /\ assistant.pending_input = "reminder_time"
       => assistant.temp_reminder # PyNone
    /\ \A i \in 1..Len(produced) :
          (/\ produced[i].route = "pending"
           /\ produced[i].pending_before \in {"exchange_target", "reminder_time"})
          => produced[i].message \notin C34_Missing

\* C34 witness: "set reminder", "Paris", "usd": reminder_time was pending
\* with the task stored, and its answer set the reminder for that task.
C34_Witness ==
    /\ Settled /\ Len(produced) = 3
    /\ produced[2].input_type = "reminder_time"
    /\ Last.route = "pending" /\ Last.pending_before = "reminder_time"
    /\ assistant.temp_reminder = "Paris"
    /\ Last.calls = <<Call("set_reminder", <<"Paris", "usd">>)>>
    /\ Last.message = "Reminder set for: usd - Paris"

-----------------------------------------------------------------------------
(* The frame of Stop.                                                      *)

Farewell == "Goodbye! Have a great day!"

\* The engine handles a command as Stop in this step.
C35_Handling == w.pc = "proc" /\ w'.pc = "emit" /\ w'.route = "stop"

\* The command handled last was handled as Stop.
C35_Stopped == Settled /\ Last.route = "stop"

\* C35: handling Stop in web mode sets should_stop to true and listening to
\* false and emits the farewell; it leaves the pending slot and the
\* collected slot values unchanged, so a slot that was pending before Stop
\* is still pending in the engine afterwards.
C35_StopFrame ==
    /\ [][C35_Handling
          => /\ assistant'.should_stop /\ ~assistant'.listening
             /\ assistant'.pending_input = assistant.pending_input
             /\ assistant'.temp_exchange = assistant.temp_exchange
             /\ assistant'.temp_reminder = assistant.temp_reminder
             /\ \E k \in 1..Len(w'.plan) : w'.plan[k] = Say(Farewell)]_vars
    /\ [](C35_Stopped
          => /\ assistant.should_stop /\ ~assistant.listening
             /\ assistant.pending_input = Last.pending_before
             /\ \E k \in 1..Len(sinks[Cap(Last.cmd)]) :
                   sinks[Cap(Last.cmd)][k] = Utt(Cap(Last.cmd), Farewell)
             /\ Last.message = Farewell)

\* C35 witness: "exchange rate", "usd", then "Goodbye Paris": Stop found
\* exchange_target pending with the base stored, and left both.
C35_Witness ==
    /\ C35_Stopped
    /\ Last.pending_before = "exchange_target"
    /\ assistant.pending_input = "exchange_target"
    /\ assistant.temp_exchange = "usd"
    /\ assistant.should_stop /\ ~assistant.listening

-----------------------------------------------------------------------------
(* The is_response flag without a pending slot.                            *)

\* The worker is about to handle a text command flagged is_response while
\* no slot is pending.
C36_FlaggedWhileIdle ==
    /\ w.pc = "proc"
    /\ w.command.type = "text" /\ w.command.is_response
    /\ assistant.pending_input = PyNone

\* The same command without the flag.
C36_Unflagged == [w.command EXCEPT !.is_response = FALSE]

\* The command handled last was flagged is_response, typed, and found no
\* slot pending.
C36_HandledWhileIdle ==
    /\ Settled
    /\ w.command.type = "text" /\ w.command.is_response
    /\ Last.pending_before = PyNone

\* C36: the is_response flag has no effect when no slot is pending: a text
\* command flagged is_response that arrives while the engine is idle is
\* processed exactly like the same command without the flag (same engine
\* fields left, same utterances, same ending, whatever the collaborators
\* do), and it is resolved as a fresh command, never given to a slot handler.
C36_FlagIgnoredWhenIdle ==
    /\ C36_FlaggedWhileIdle
       => \A co \in CollabOutcomes :
             Command(assistant, w.command, "None", "None", co)
                = Command(assistant, C36_Unflagged, "None", "None", co)
    /\ C36_HandledWhileIdle
       => /\ Last.route \in {"execute", "stop", "raise"}
          /\ Last.calls = <<>>
          /\ Last.route = "execute"
             => Last.matched_command = MatchCommand(strip(lower(Last.query)))

\* C36 witness: the flagged text "Paris" sent to the idle engine was
\* resolved, matched no intent and was answered with the request to
\* rephrase.
C36_Witness ==
    /\ C36_HandledWhileIdle
    /\ Last.query = "Paris" /\ Last.route = "execute"
    /\ Last.matched_command = PyNone
    /\ Last.message = Rephrase
    /\ assistant.pending_input = PyNone

-----------------------------------------------------------------------------
(* The message of a result and its all_responses.                          *)

\* The result r has the message its all_responses determine.
C37_MessageIsLast(r) ==
    IF Responses(r) = <<>>
    THEN r.message = "Command processed successfully"
    ELSE r.message = Responses(r)[Len(Responses(r))]

\* C37: in every result the worker produces, all_responses is either empty,
\* in which case the message is "Command processed successfully", or
\* non-empty, in which case the message equals its last element; on the
\* normal, the Stop and the error path alike.
C37_MessageMatchesResponses ==
    \A i \in 1..Len(produced) : C37_MessageIsLast(produced[i])

\* C37 witness: "exchange rate" gave a result without utterances, a body
\* without "content" gave an error result, and a spoken "weather" heard at
\* the second attempt gave a result with three utterances whose last one is
\* the message.
C37_Witness ==
    /\ Settled /\ Len(produced) = 3
    /\ produced[1].route = "execute" /\ Responses(produced[1]) = <<>>
    /\ produced[1].message = "Command processed successfully"
    /\ produced[2].route = "raise" /\ Len(Responses(produced[2])) = 1
    /\ Responses(Last) =
          <<"I didn't catch that. Please speak again.", "You said: weather",
            "What city would you like to know the weather for?">>
    /\ Last.message = "What city would you like to know the weather for?"

-----------------------------------------------------------------------------
(* Requests that are not commands.                                         *)

\* The bodies whose type is neither "text" nor "voice" (a request without a
\* JSON body has no type at all).
C38_Invalid == {data \in Requests : data.type \notin {"text", "voice"}}

\* C38: a /send_command request whose type is neither "text" nor "voice" is
\* rejected with status 'error' and success=false ("Invalid command type"
\* when it has a body) without being enqueued: the command queue, the reply
\* queue, the pending slot and should_stop are all unchanged by it.
C38_InvalidTypeRejected ==
    [][\A c \in Callers : \A data \in C38_Invalid :
          CSubmit(c, data)
          => /\ cpc'[c] = "done"
             /\ reply'[c].status = "error" /\ ~reply'[c].success
             /\ ~reply'[c].requires_input
             /\ data.json => reply'[c].message = "Invalid command type"
             /\ command_queue' = command_queue
             /\ response_queue' = response_queue
             /\ enqueued' = enqueued
             /\ assistant' = assistant
             /\ w' = w]_vars

\* C38 witness: "weather" was handled and its result is still queued for
\* the first caller when the second request, of type "image", is rejected:
\* the result stays queued and weather_city stays pending.
C38_Witness ==
    /\ cpc[1] = "wait" /\ cpc[2] = "done"
    /\ reply[2] = InvalidTypeResponse
    /\ enqueued = <<1>> /\ command_queue = <<>>
    /\ Len(response_queue) = 1 /\ Head(response_queue).cmd = 1
    /\ assistant.pending_input = "weather_city"
    /\ ~assistant.should_stop

-----------------------------------------------------------------------------
(* get_exchange_rate of online.py on its own: one call, step by step.  w   *)
(* holds the position, the two arguments (rebound to upper case at lines   *)
(* 422-423), retry_count, and, as history, the number of HTTP requests     *)
(* issued and how each of them ended; returned is the string returned and  *)
(* raised the message of the exception that leaves the function.           *)

max_retries == 3

\* The currency codes the function is called with.
Currencies == {"", "usd", "EUR", "gbp", "us", "euro"}

\* How one pass of the while loop ends: requests.get raises requests.Timeout
\* or another RequestException, the status is 404 or another non-200, the
\* rates lack the target, or the rate is there.
RequestOutcomes == {"timeout", "error", "404", "500", "no_rate", "ok"}

InitExchange ==
    /\ assistant = [speak |-> Tts, pending_input |-> PyNone,
                    should_stop |-> FALSE,
                    listening |-> FALSE, temp_reminder |-> PyNone,
                    temp_exchange |-> PyNone]
    /\ command_queue = <<>>
    /\ response_queue = <<>>
    /\ sinks = [s \in Sinks |-> <<>>]
    /\ w \in {[pc |-> "validate", base_currency |-> b, target_currency |-> t,
                retry_count |-> 0, sent |-> 0, log |-> <<>>,
                returned |-> PyNone, raised |-> PyNone] :
              b \in Currencies, t \in Currencies}
    /\ cpc = [c \in Callers |-> "idle"]
    /\ reply = [c \in Callers |-> NoReply]
    /\ hpc = [h \in Homes |-> "idle"]
    /\ horig = [h \in Homes |-> NoSink]
    /\ enqueued = <<>>
    /\ produced = <<>>
    /\ gaveup = [c \in Callers |-> {}]

\* Lines 416-431: the two validations raise ValueError, which the outer
\* except re-raises; otherwise the codes are upper-cased and the loop starts.
get_exchange_rate_validate ==
    /\ w.pc = "validate"
    /\ IF w.base_currency = "" \/ w.target_currency = ""
       THEN w' = [w EXCEPT !.pc = "done",
                    !.raised = "Both base and target currencies are required"]
       ELSE IF Len(upper(w.base_currency)) # 3
               \/ Len(upper(w.target_currency)) # 3
       THEN w' = [w EXCEPT !.pc = "done",
                    !.base_currency = upper(@), !.target_currency = upper(@),
                    !.raised = "Currency codes must be 3 letters (e.g., USD, EUR)"]
       ELSE w' = [w EXCEPT !.pc = "request",
                    !.base_currency = upper(@), !.target_currency = upper(@),
                    !.retry_count = 0]
    /\ UNCHANGED <<assistant, command_queue, response_queue, sinks, cpc, reply,
                   hpc, horig, enqueued, produced, gaveup>>

\* An except clause that retries after any RequestException.
IsTimeout_AnyRequestException(outcome) == outcome \in {"timeout", "error"}

\* except requests.Timeout (line 458) catches the exception of this outcome.
IsTimeout(outcome) == outcome = "timeout"

\* Lines 433-467: one pass of the while loop, one requests.get.
get_exchange_rate_request(outcome) ==
    /\ w.pc = "request"
    /\ w.retry_count < max_retries
    /\ LET issued == [w EXCEPT !.sent = @ + 1, !.log = Append(@, outcome)]
           ended == [issued EXCEPT !.pc = "done"]
       IN  IF IsTimeout(outcome)
           THEN IF w.retry_count + 1 = max_retries
                THEN w' = [ended EXCEPT
                             !.retry_count = @ + 1,
                             !.raised = "Failed to get exchange rate: Connection timeout"]
                ELSE w' = [issued EXCEPT !.retry_count = @ + 1]
           ELSE IF outcome = "error"
           THEN w' = [ended EXCEPT
                        !.raised = "Network error while fetching exchange rate"]
           ELSE IF outcome = "404"
           THEN w' = [ended EXCEPT
                        !.raised = "Invalid currency code: " \o w.base_currency]
           ELSE IF outcome = "500"
           THEN w' = [ended EXCEPT
                        !.raised = "API Error (Status 500): <text>"]
           ELSE IF outcome = "no_rate"
           THEN w' = [ended EXCEPT
                        !.raised = "Invalid target currency: "
                                   \o w.target_currency]
           ELSE w' = [ended EXCEPT
                        !.returned = "Exchange Rate: 1 " \o w.base_currency
                                     \o " = <rate> " \o w.target_currency
                                     \o "\nLast Updated: <timestamp> UTC"]
    /\ UNCHANGED <<assistant, command_queue, response_queue, sinks, cpc, reply,
                   hpc, horig, enqueued, produced, gaveup>>

NextExchange ==
    \/ get_exchange_rate_validate
    \/ \E outcome \in RequestOutcomes : get_exchange_rate_request(outcome)

SpecExchange == InitExchange /\ [][NextExchange]_vars

\* Three timeouts in a row.
C39_ThreeTimeouts == <<"timeout", "timeout", "timeout">>

\* The call was made with a code that is empty or not 3 characters long.
C39_BadCode ==
    \/ Len(w.base_currency) # 3
    \/ Len(w.target_currency) # 3

\* C39: get_exchange_rate issues at most 3 HTTP requests per call; it
\* retries only after a request timeout (every request but the last one
\* timed out); it raises "Failed to get exchange rate: Connection timeout"
\* exactly after the third timeout; any other request failure ends the call
\* with an exception at once; and it makes no request at all, and raises,
\* when either currency code is empty or not 3 characters long.
C39_BoundedRequests ==
    /\ w.sent <= 3 /\ w.sent = Len(w.log)
    /\ \A k \in 1..(Len(w.log) - 1) : w.log[k] = "timeout"
    /\ (w.raised = "Failed to get exchange rate: Connection timeout")
       <=> (w.pc = "done" /\ w.log = C39_ThreeTimeouts)
    /\ (w.log # <<>> /\ w.log[Len(w.log)] \notin {"timeout", "ok"})
       => (w.pc = "done" /\ w.raised # PyNone /\ w.returned = PyNone)
    /\ (w.log # <<>> /\ w.log[Len(w.log)] = "ok")
       => (w.pc = "done" /\ w.raised = PyNone /\ w.returned # PyNone)
    /\ C39_BadCode
       => /\ w.sent = 0
          /\ w.pc = "done"
             => w.raised \in {"Both base and target currencies are required",
                              "Currency codes must be 3 letters (e.g., USD, EUR)"}

\* C39 witness: the rate of USD in EUR was asked (as "usd", "EUR"), three
\* requests were issued, each timed out, and the call raised the timeout
\* failure.
C39_Witness ==
    /\ w.pc = "done"
    /\ w.base_currency = "USD" /\ w.target_currency = "EUR"
    /\ w.sent = 3 /\ w.log = C39_ThreeTimeouts
    /\ w.retry_count = 3
    /\ w.raised = "Failed to get exchange rate: Connection timeout"

====
